---------------------------- MODULE Spec2Model ----------------------------
(***************************************************************************)
(* kiwiOS kernel core: block cache (fs/bcache.c), cooperative scheduler    *)
(* (core/scheduler.c), timer interrupt stub (arch/x86/idt.c) and the       *)
(* four-level page-table walker (memory/vmm.c).                            *)
(*                                                                         *)
(* The specifications share the module and its initial state. Each one    *)
(* drives its own subsystem and leaves the variables of the others at      *)
(* their initial value.                                                    *)
(***************************************************************************)
EXTENDS Integers, Sequences, FiniteSets, TLC

VARIABLES
    \* ---- fs/bcache.c ----
    g_bufs,      \* g_bufs[i]: dev, block_no, refcnt, valid, dirty, data
    g_ht,        \* g_ht[idx]: hash chain, head first (hnext links)
    g_lru,       \* LRU list, g_lru_head first, g_lru_tail last
    g_stats,     \* total_bufs, used_bufs and dirty_bufs of bcache_stats_t
    g_events,    \* hits, misses and evictions of bcache_stats_t, counted
                 \* from bcache_init on in SpecStats and not followed by
                 \* the other specifications
    disk,        \* disk[dev][block_no]: contents of the block on the device
    want,        \* history: want[dev][block_no], the bytes the clients of the
                 \* cache last stored for the block (the disk's, before any)
    cop,         \* history: the last cache call, when it is one of the
                 \* outcomes the properties below speak of
    fetched,     \* history: the buffers bcache_get has returned, the one
                 \* returned last first
    run,         \* history: the blocks fetched so far, oldest first, while
                 \* every call so far was a bcache_get of a block not
                 \* fetched before, made while no buffer was held, or a
                 \* bcache_put; RunOver afterwards
    \* ---- core/scheduler.c ----
    threads,     \* threads[id]: state, saved context, position of its code
    current_thread,
    thread_count,
    reschedule_requested,
    sop,         \* history: the last scheduler / interrupt operation
    order,       \* history: the threads that got the CPU, oldest first,
                 \* since the set of threads last changed (a create or an
                 \* exit); the last OrderLen of them
    yld,         \* the scheduler_yield call under way, statement by
                 \* statement, and the interrupt state of the CPU; followed
                 \* by SpecYield only
    \* ---- memory/vmm.c ----
    mem,         \* the page tables in memory: <<table, index>> -> entry
    pmm_free,    \* the free frames of the physical allocator's pool
    page_tables, \* the handles vmm_create_page_table has returned
    vop,         \* history: the last VMM call and its arguments
    \* ---- drivers/ahci/ahci.c ----
    g_disk,      \* the selected disk: ready
    port,        \* the registers of its port: PxCMD, PxTFD, PxCI
    ct,          \* command header and command table of slot 0
    ram,         \* physical memory holding data, sector by sector
    adisk,       \* the sectors of the disk
    a_pc,        \* where the driver is in a call: "idle", or the poll loop
    a_i,         \* the counter of that poll loop
    a_call,      \* the arguments and the bounce buffer of the call, and
                 \* (history) done: what became of the command it issued
    aop,         \* history: the last call that returned
    iport,       \* ahci_probe_mmio at boot: the port it is at, where it is
                 \* in ahci_init_port, PxCMD of that port, g_disk.ready, and
                 \* (history) what the drain loops of port_stop saw
    \* ---- drivers/block/block.c ----
    g_ready,     \* block_init found the boot device
    g_part,      \* g_part_count, g_parts (with g_part_ctx), g_part_table
    bdisk,       \* the sectors of the disk block_init has read
    bop,         \* history: the last call of the block layer
    \* ---- arch/x86/idt.c ----
    cpu,         \* IF, where the CPU executes, and what the panic reported
    pic,         \* history: the last interrupt vector delivered and the
                 \* writes its handler made to the interrupt controllers
    \* ---- core/main.c ----
    kboot        \* kmain: where it is, IF, and (history) the calls made

cacheVars ==
    <<g_bufs, g_ht, g_lru, g_stats, g_events, disk, want, cop, fetched, run>>

schedVars ==
    <<threads, current_thread, thread_count, reschedule_requested, sop, order,
      yld>>

vmmVars == <<mem, pmm_free, page_tables, vop>>

ahciVars == <<g_disk, port, ct, ram, adisk, a_pc, a_i, a_call, aop, iport>>

blockVars == <<g_ready, g_part, bdisk, bop>>

vars ==
    <<cacheVars, schedVars, vmmVars, ahciVars, blockVars, cpu, pic, kboot>>

(***************************************************************************)
(*                           fs/bcache.c                                   *)
(***************************************************************************)

\* Number of buffers handed to bcache_init (kmain passes 256).
NBufs == 2
\* Largest number of handles outstanding at once (the sum of the refcounts).
MaxHeld == 2

Bufs == 1..NBufs
\* block_device_t pointers; 0 is NULL.
Devs == {1, 2}
\* Block numbers addressed on each device.
BlocksOf(dev) == IF dev = 1 THEN {0, 1} ELSE {0}
Blocks == {0, 1}
\* 4 KiB block contents, abstracted to a token.
Data == {"A", "B"}
NoData == "none"
\* dev->flush is optional: device 2 provides none.
HasFlush(dev) == dev = 1

g_ht_cap == (NBufs * 2) + 1

\* key_hash mixes the device ADDRESS with the block number; the address is a
\* heap address the source does not fix, so the bucket of a key is a
\* parameter of the model. This assignment makes distinct keys collide.
key_hash(dev, block_no) == (dev + block_no) * 7

Bucket(dev, block_no) == key_hash(dev, block_no) % g_ht_cap

EmptyBuf == [dev |-> 0, block_no |-> 0, refcnt |-> 0, valid |-> FALSE,
             dirty |-> FALSE, data |-> NoData]

RECURSIVE RemoveFirst(_, _)
RemoveFirst(s, b) ==
    IF s = <<>> THEN <<>>
    ELSE IF Head(s) = b THEN Tail(s)
    ELSE <<Head(s)>> \o RemoveFirst(Tail(s), b)

lru_remove(lru, b) == RemoveFirst(lru, b)

lru_push_front(lru, b) == <<b>> \o lru

lru_touch(lru, b) == lru_push_front(lru_remove(lru, b), b)

\* ht_remove leaving the buffer on its chain.
ht_remove_keeps_entry(ht, bufs, b) == ht

ht_remove(ht, bufs, b) ==
    LET idx == Bucket(bufs[b].dev, bufs[b].block_no)
    IN  [ht EXCEPT ![idx] = RemoveFirst(@, b)]

ht_insert(ht, bufs, b) ==
    LET idx == Bucket(bufs[b].dev, bufs[b].block_no)
    IN  [ht EXCEPT ![idx] = <<b>> \o @]

RECURSIVE ChainFind(_, _, _, _)
ChainFind(chain, bufs, dev, block_no) ==
    IF chain = <<>> THEN 0
    ELSE LET cur == Head(chain)
         IN  IF bufs[cur].valid /\ bufs[cur].dev = dev
                  /\ bufs[cur].block_no = block_no
             THEN cur
             ELSE ChainFind(Tail(chain), bufs, dev, block_no)

\* Mutant: only the head of the chain is compared.
ht_lookup_head_only(ht, bufs, dev, block_no) ==
    LET chain == ht[Bucket(dev, block_no)]
    IN  IF chain = <<>> THEN 0
        ELSE ChainFind(<<Head(chain)>>, bufs, dev, block_no)

ht_lookup(ht, bufs, dev, block_no) ==
    ChainFind(ht[Bucket(dev, block_no)], bufs, dev, block_no)

RECURSIVE ScanFromTail(_, _, _)
ScanFromTail(lru, bufs, i) ==
    IF i = 0 THEN 0
    ELSE IF bufs[lru[i]].refcnt = 0 THEN lru[i]
    ELSE ScanFromTail(lru, bufs, i - 1)

\* Mutant: the LRU tail is taken whatever its refcount.
find_evictable_ignoring_pins(lru, bufs) ==
    IF lru = <<>> THEN 0 ELSE lru[Len(lru)]

RECURSIVE ScanFromHead(_, _, _)
ScanFromHead(lru, bufs, i) ==
    IF i > Len(lru) THEN 0
    ELSE IF bufs[lru[i]].refcnt = 0 THEN lru[i]
    ELSE ScanFromHead(lru, bufs, i + 1)

\* Mutant: the scan starts at the LRU head.
find_evictable_from_head(lru, bufs) == ScanFromHead(lru, bufs, 1)

find_evictable(lru, bufs) == ScanFromTail(lru, bufs, Len(lru))

\* Outcome of dev->read / dev->write (a sector size other than 512 and a
\* missing read / write function are failures too).
IoResults == {"ok", "fail"}

\* dev_write_block: the block on the device after the call.
DiskAfterWrite(dsk, dev, block_no, data, res) ==
    IF res = "ok" THEN [dsk EXCEPT ![dev][block_no] = data] ELSE dsk

\* Mutant: the dirty flag is cleared although the device write failed.
writeback_one_clears_on_failure(bufs, dsk, stats, b, res) ==
    IF ~bufs[b].valid \/ ~bufs[b].dirty
    THEN [ok |-> TRUE, bufs |-> bufs, disk |-> dsk, stats |-> stats]
    ELSE [ok    |-> TRUE,
          bufs  |-> [bufs EXCEPT ![b].dirty = FALSE],
          disk  |-> DiskAfterWrite(dsk, bufs[b].dev, bufs[b].block_no,
                                   bufs[b].data, res),
          stats |-> [stats EXCEPT !.dirty_bufs =
                        IF @ > 0 THEN @ - 1 ELSE @]]

\* writeback_one: result and the state it leaves.
writeback_one(bufs, dsk, stats, b, res) ==
    IF ~bufs[b].valid \/ ~bufs[b].dirty
    THEN [ok |-> TRUE, bufs |-> bufs, disk |-> dsk, stats |-> stats]
    ELSE IF res # "ok"
    THEN [ok    |-> FALSE,
          bufs  |-> bufs,
          disk  |-> DiskAfterWrite(dsk, bufs[b].dev, bufs[b].block_no,
                                   bufs[b].data, res),
          stats |-> stats]
    ELSE [ok    |-> TRUE,
          bufs  |-> [bufs EXCEPT ![b].dirty = FALSE],
          disk  |-> DiskAfterWrite(dsk, bufs[b].dev, bufs[b].block_no,
                                   bufs[b].data, res),
          stats |-> [stats EXCEPT !.dirty_bufs =
                        IF @ > 0 THEN @ - 1 ELSE @]]

\* The last call. Recorded are a bcache_get that found every buffer pinned
\* ("all_pinned") or whose write-back of the victim failed ("wb_failed"), and
\* a bcache_sync_dev(dev) that returned true; every other call is "other".
NoOp == [op |-> "other", dev |-> 0, res |-> "ok"]

\* The value of run once a call other than those it follows has been made.
RunOver == <<<<0, 0>>>>

RECURSIVE SumRef(_, _)
SumRef(bufs, i) == IF i = 0 THEN 0 ELSE bufs[i].refcnt + SumRef(bufs, i - 1)

\* bcache_init: every buffer whose pmm_alloc succeeded is pushed on the LRU
\* front in index order (the model takes every pmm_alloc to succeed).
RECURSIVE InitLru(_, _)
InitLru(alloc, i) ==
    IF i = 0 THEN <<>>
    ELSE IF i \in alloc THEN <<i>> \o InitLru(alloc, i - 1)
    ELSE InitLru(alloc, i - 1)

CacheInit ==
    /\ g_bufs = [i \in Bufs |-> EmptyBuf]
    /\ g_ht = [idx \in 0..(g_ht_cap - 1) |-> <<>>]
    /\ g_lru = InitLru(Bufs, NBufs)
    /\ g_stats = [total_bufs |-> NBufs, used_bufs |-> 0, dirty_bufs |-> 0]
    /\ g_events = [hits |-> 0, misses |-> 0, evictions |-> 0]
    /\ disk = [d \in Devs |-> [k \in Blocks |-> "A"]]
    /\ want = disk
    /\ cop = NoOp
    /\ fetched = <<>>
    /\ run = <<>>


\* bcache_get: the buffer returned (0 is NULL) and the state the call leaves.
\* wres / rres are the outcomes the device gives to the write-back of the
\* victim and to the read of the requested block, when the call issues them.
bcache_get(bufs, ht, lru, stats, dsk, dev, block_no, wres, rres) ==
    LET b == ht_lookup(ht, bufs, dev, block_no)
        same == [ret |-> 0, bufs |-> bufs, ht |-> ht, lru |-> lru,
                 stats |-> stats, disk |-> dsk, victim |-> 0,
                 res |-> "all_pinned"]
    IN
    IF b # 0
    THEN [same EXCEPT !.ret = b, !.res = "hit",
                      !.bufs = [bufs EXCEPT ![b].refcnt = @ + 1],
                      !.lru = lru_touch(lru, b)]
    ELSE
    LET v == find_evictable(lru, bufs) IN
    IF v = 0 THEN same
    ELSE
    LET mustWb == bufs[v].valid /\ bufs[v].dirty
        w == IF mustWb THEN writeback_one(bufs, dsk, stats, v, wres)
             ELSE [ok |-> TRUE, bufs |-> bufs, disk |-> dsk, stats |-> stats]
    IN
    IF ~w.ok
    THEN [same EXCEPT !.bufs = w.bufs, !.disk = w.disk, !.stats = w.stats,
                      !.victim = v, !.res = "wb_failed"]
    ELSE
    LET ht1 == IF bufs[v].valid THEN ht_remove(ht, w.bufs, v) ELSE ht
        \* Fill new key
        bufs1 == [w.bufs EXCEPT ![v].dev = dev, ![v].block_no = block_no,
                                ![v].valid = TRUE, ![v].dirty = FALSE]
    IN
    IF rres # "ok"
    THEN \* Mark invalid so it won't poison cache
         [same EXCEPT
            !.bufs = [bufs1 EXCEPT ![v].valid = FALSE, ![v].dev = 0,
                                   ![v].block_no = 0,
                                   \* the page holds part of a failed read
                                   ![v].data = NoData],
            !.ht = ht1, !.disk = w.disk, !.stats = w.stats,
            !.victim = v, !.res = "rd_failed"]
    ELSE
    LET bufs2 == [bufs1 EXCEPT ![v].data = w.disk[dev][block_no],
                               ![v].refcnt = 1]
    IN  [same EXCEPT
            !.ret = v,
            !.bufs = bufs2,
            !.ht = ht_insert(ht1, bufs2, v),
            !.lru = lru_touch(lru, v),
            !.disk = w.disk,
            !.stats = IF w.stats.used_bufs < w.stats.total_bufs
                      THEN [w.stats EXCEPT !.used_bufs = @ + 1]
                      ELSE w.stats,
            !.victim = v, !.res = "filled"]

BcacheGet(dev, block_no, wres, rres) ==
    LET r == bcache_get(g_bufs, g_ht, g_lru, g_stats, disk, dev, block_no,
                        wres, rres)
    IN  /\ SumRef(r.bufs, NBufs) <= MaxHeld
        /\ g_bufs' = r.bufs
        /\ g_ht' = r.ht
        /\ g_lru' = r.lru
        /\ g_stats' = r.stats
        /\ disk' = r.disk
        /\ cop' = IF r.res \in {"all_pinned", "wb_failed"}
                  THEN [NoOp EXCEPT !.op = "get", !.res = r.res]
                  ELSE NoOp
        /\ fetched' = IF r.ret = 0 THEN fetched
                      ELSE <<r.ret>> \o SelectSeq(fetched,
                                                  LAMBDA x : x # r.ret)
        /\ run' = IF /\ run # RunOver
                     /\ r.res = "filled"
                     /\ SumRef(g_bufs, NBufs) = 0
                     /\ Len(run) <= NBufs
                     /\ \A i \in 1..Len(run) : run[i] # <<dev, block_no>>
                  THEN Append(run, <<dev, block_no>>)
                  ELSE RunOver
        /\ UNCHANGED want

\* bcache_put
BcachePut(b) ==
    /\ g_bufs' = IF g_bufs[b].refcnt = 0 THEN g_bufs
                 ELSE [g_bufs EXCEPT ![b].refcnt = @ - 1]
    /\ cop' = NoOp
    /\ UNCHANGED <<g_ht, g_lru, g_stats, disk, want, fetched, run>>

\* bcache_mark_dirty counting every call on a valid buffer.
bcache_mark_dirty_counts_every_call(bufs, stats, b) ==
    IF ~bufs[b].valid
    THEN [bufs |-> bufs, stats |-> stats]
    ELSE [bufs  |-> [bufs EXCEPT ![b].dirty = TRUE],
          stats |-> [stats EXCEPT !.dirty_bufs = @ + 1]]

\* bcache_mark_dirty: buffers and statistics after the call.
bcache_mark_dirty(bufs, stats, b) ==
    IF ~bufs[b].valid \/ bufs[b].dirty
    THEN [bufs |-> bufs, stats |-> stats]
    ELSE [bufs  |-> [bufs EXCEPT ![b].dirty = TRUE],
          stats |-> [stats EXCEPT !.dirty_bufs = @ + 1]]

BcacheMarkDirty(b) ==
    LET r == bcache_mark_dirty(g_bufs, g_stats, b)
    IN  /\ g_bufs' = r.bufs
        /\ g_stats' = r.stats
        /\ cop' = NoOp
        /\ run' = RunOver
        /\ UNCHANGED <<g_ht, g_lru, disk, want, fetched>>

\* A holder of a pinned buffer stores new bytes through bcache_data and then
\* calls bcache_mark_dirty (the two run back to back on the single CPU).
ClientWrite(b, m) ==
    /\ g_bufs[b].refcnt > 0
    /\ LET modified == [g_bufs EXCEPT ![b].data = m]
           r == bcache_mark_dirty(modified, g_stats, b)
       IN  /\ g_bufs' = r.bufs
           /\ g_stats' = r.stats
    /\ want' = IF g_bufs[b].valid
               THEN [want EXCEPT ![g_bufs[b].dev][g_bufs[b].block_no] = m]
               ELSE want
    /\ cop' = NoOp
    /\ run' = RunOver
    /\ UNCHANGED <<g_ht, g_lru, disk, fetched>>

\* The write-back loop of bcache_sync_dev / bcache_sync_all over g_bufs[i..],
\* restricted to the buffers of dev (dev = 0: every device).
RECURSIVE SyncLoop(_, _, _, _, _, _, _)
SyncLoop(bufs, dsk, stats, dev, wres, i, ok) ==
    IF i > NBufs
    THEN [ok |-> ok, bufs |-> bufs, disk |-> dsk, stats |-> stats,
          calls |-> <<>>]
    ELSE IF ~bufs[i].valid \/ (dev # 0 /\ bufs[i].dev # dev) \/ ~bufs[i].dirty
    THEN SyncLoop(bufs, dsk, stats, dev, wres, i + 1, ok)
    ELSE LET w == writeback_one(bufs, dsk, stats, i, wres[i])
             rest == SyncLoop(w.bufs, w.disk, w.stats, dev, wres, i + 1,
                              ok /\ w.ok)
         IN  [rest EXCEPT !.calls = <<<<"write", i>>>> \o @]

\* Mutant: the result of the write-backs is overwritten by that of the flush.
bcache_sync_dev_forgets_failures(bufs, dsk, stats, dev, wres, fok) ==
    LET w == SyncLoop(bufs, dsk, stats, dev, wres, 1, TRUE)
    IN  [ok    |-> (HasFlush(dev) => fok),
         bufs  |-> w.bufs,
         disk  |-> w.disk,
         stats |-> w.stats,
         calls |-> w.calls \o (IF HasFlush(dev) THEN <<<<"flush", dev>>>>
                                ELSE <<>>)]

\* The calls bcache_sync_dev makes to the device are returned in order as
\* calls: <<"write", b>> for the write-back of buffer b, <<"flush", dev>>.

\* Mutant: the buffers of every device are written back.
bcache_sync_dev_every_device(bufs, dsk, stats, dev, wres, fok) ==
    LET w == SyncLoop(bufs, dsk, stats, 0, wres, 1, TRUE)
    IN  [ok    |-> w.ok /\ (HasFlush(dev) => fok),
         bufs  |-> w.bufs,
         disk  |-> w.disk,
         stats |-> w.stats,
         calls |-> w.calls \o (IF HasFlush(dev) THEN <<<<"flush", dev>>>>
                                ELSE <<>>)]

\* bcache_sync_dev for a non-NULL dev: fok is the result of dev->flush.
bcache_sync_dev(bufs, dsk, stats, dev, wres, fok) ==
    LET w == SyncLoop(bufs, dsk, stats, dev, wres, 1, TRUE)
    IN  [ok    |-> w.ok /\ (HasFlush(dev) => fok),
         bufs  |-> w.bufs,
         disk  |-> w.disk,
         stats |-> w.stats,
         calls |-> w.calls \o (IF HasFlush(dev) THEN <<<<"flush", dev>>>>
                                ELSE <<>>)]

BcacheSyncDev(dev, wres, fok) ==
    LET r == bcache_sync_dev(g_bufs, disk, g_stats, dev, wres, fok)
    IN  /\ g_bufs' = r.bufs
        /\ disk' = r.disk
        /\ g_stats' = r.stats
        /\ cop' = IF r.ok THEN [NoOp EXCEPT !.op = "sync_dev", !.dev = dev]
                  ELSE NoOp
        /\ run' = RunOver
        /\ UNCHANGED <<g_ht, g_lru, want, fetched>>

\* bcache_sync_dev(NULL): counted, refused.
BcacheSyncDevNull ==
    /\ cop' = NoOp
    /\ run' = RunOver
    /\ UNCHANGED <<g_bufs, g_ht, g_lru, g_stats, disk, want, fetched>>

\* bcache_sync_all
BcacheSyncAll(wres) ==
    LET r == SyncLoop(g_bufs, disk, g_stats, 0, wres, 1, TRUE)
    IN  /\ g_bufs' = r.bufs
        /\ disk' = r.disk
        /\ g_stats' = r.stats
        /\ cop' = NoOp
        /\ run' = RunOver
        /\ UNCHANGED <<g_ht, g_lru, want, fetched>>

\* The device outcomes a call can observe: one per dirty buffer it may write
\* back (the others are fixed to "ok", the call never issues them).
WriteOutcomes(dev) ==
    {wres \in [Bufs -> IoResults] :
        \A i \in Bufs :
            (~g_bufs[i].valid \/ ~g_bufs[i].dirty
               \/ (dev # 0 /\ g_bufs[i].dev # dev)) => wres[i] = "ok"}

\* The outcomes a bcache_get can observe: the write-back is issued only for a
\* valid dirty victim, the read only when a victim was found and its
\* write-back, if any, succeeded.
GetOutcomes(dev, block_no) ==
    LET v == IF ht_lookup(g_ht, g_bufs, dev, block_no) # 0 THEN 0
             ELSE find_evictable(g_lru, g_bufs)
        wb == v # 0 /\ g_bufs[v].valid /\ g_bufs[v].dirty
    IN  {o \in IoResults \X IoResults :
            /\ ~wb => o[1] = "ok"
            /\ (v = 0 \/ o[1] # "ok") => o[2] = "ok"}

CacheNext ==
    \/ /\ \E dev \in Devs : \E block_no \in BlocksOf(dev) :
             \E o \in GetOutcomes(dev, block_no) :
                BcacheGet(dev, block_no, o[1], o[2])
       /\ UNCHANGED <<g_events, schedVars, vmmVars, ahciVars, blockVars, cpu,
                       pic, kboot>>
    \/ /\ \E b \in Bufs : BcachePut(b)
       /\ UNCHANGED <<g_events, schedVars, vmmVars, ahciVars, blockVars, cpu,
                       pic, kboot>>
    \/ /\ \E b \in Bufs : BcacheMarkDirty(b)
       /\ UNCHANGED <<g_events, schedVars, vmmVars, ahciVars, blockVars, cpu,
                       pic, kboot>>
    \/ /\ \E b \in Bufs, m \in Data : ClientWrite(b, m)
       /\ UNCHANGED <<g_events, schedVars, vmmVars, ahciVars, blockVars, cpu,
                       pic, kboot>>
    \/ /\ \E dev \in Devs : \E wres \in WriteOutcomes(dev), fok \in BOOLEAN :
             BcacheSyncDev(dev, wres, fok)
       /\ UNCHANGED <<g_events, schedVars, vmmVars, ahciVars, blockVars, cpu,
                       pic, kboot>>
    \/ /\ BcacheSyncDevNull
       /\ UNCHANGED <<g_events, schedVars, vmmVars, ahciVars, blockVars, cpu,
                       pic, kboot>>
    \/ /\ \E wres \in WriteOutcomes(0) : BcacheSyncAll(wres)
       /\ UNCHANGED <<g_events, schedVars, vmmVars, ahciVars, blockVars, cpu,
                       pic, kboot>>

\* Largest value SpecStats follows hits and misses to.
MaxStat == 3

\* Mutant: a hit is counted as a miss.
bcache_get_events_hit_as_miss(ev, bufs, ht, lru, dev, block_no, wres) ==
    [ev EXCEPT !.misses = @ + 1]

\* bcache_get: the event counters the call leaves. A hit counts in hits; a
\* miss counts in misses and, when the victim is valid and its write-back,
\* if one is due, succeeds, in evictions.
bcache_get_events(ev, bufs, ht, lru, dev, block_no, wres) ==
    IF ht_lookup(ht, bufs, dev, block_no) # 0
    THEN [ev EXCEPT !.hits = @ + 1]
    ELSE LET v == find_evictable(lru, bufs)
             missed == [ev EXCEPT !.misses = @ + 1]
         IN  IF v # 0 /\ bufs[v].valid /\ (bufs[v].dirty => wres = "ok")
             THEN [missed EXCEPT !.evictions = @ + 1]
             ELSE missed

\* bcache_get with its event counters.
BcacheGetCounted(dev, block_no, wres, rres) ==
    LET ev == bcache_get_events(g_events, g_bufs, g_ht, g_lru, dev, block_no,
                                wres)
    IN  /\ ev.hits <= MaxStat
        /\ ev.misses <= MaxStat
        /\ BcacheGet(dev, block_no, wres, rres)
        /\ g_events' = ev

StatsNext ==
    \/ /\ \E dev \in Devs : \E block_no \in BlocksOf(dev) :
             \E o \in GetOutcomes(dev, block_no) :
                BcacheGetCounted(dev, block_no, o[1], o[2])
       /\ UNCHANGED <<schedVars, vmmVars, ahciVars, blockVars, cpu, pic, kboot>>
    \/ /\ \E b \in Bufs : BcachePut(b)
       /\ UNCHANGED <<g_events, schedVars, vmmVars, ahciVars, blockVars, cpu,
                       pic, kboot>>
    \/ /\ \E b \in Bufs : BcacheMarkDirty(b)
       /\ UNCHANGED <<g_events, schedVars, vmmVars, ahciVars, blockVars, cpu,
                       pic, kboot>>
    \/ /\ \E dev \in Devs : \E wres \in WriteOutcomes(dev), fok \in BOOLEAN :
             BcacheSyncDev(dev, wres, fok)
       /\ UNCHANGED <<g_events, schedVars, vmmVars, ahciVars, blockVars, cpu,
                       pic, kboot>>

(***************************************************************************)
(*               core/scheduler.c and arch/x86/idt.c (IRQ0)                *)
(***************************************************************************)

MAX_THREADS == 16
\* Largest thread_count the model drives scheduler_create to (the counter
\* only grows: it bounds the number of threads ever created).
MaxCreated == 3
\* Length of the history of runs kept in order: one full round and one more.
OrderLen == MaxCreated + 2

Slots == 0..(MAX_THREADS - 1)
\* "No slot": the NULL thread pointer.
NoSlot == MAX_THREADS

\* A slot: state (thread_state_t; THREAD_BLOCKED is never assigned), context
\* (what context.rsp points at: "zero" after memset, "boot_rsp" the boot
\* stack, "stack_top" the trampoline address pushed by scheduler_create,
\* "saved" a frame saved by arch_context_switch) and at, the place the
\* thread's code has reached: "start" (never ran), "entry" (in its entry
\* function; kmain for slot 0), "exit" (the trampoline, from marking itself
\* dead to the return of its scheduler_yield), "halt" (the hlt loop).
UnusedSlot == [state |-> "unused", context |-> "zero", at |-> "none"]

RECURSIVE FirstFree(_, _)
FirstFree(thr, i) ==
    IF i = MAX_THREADS THEN NoSlot
    ELSE IF thr[i].state \in {"unused", "dead"} THEN i
    ELSE FirstFree(thr, i + 1)

allocate_thread_slot(thr) == FirstFree(thr, 0)

RECURSIVE ScanReady(_, _, _)
ScanReady(thr, start, i) ==
    IF i = MAX_THREADS THEN NoSlot
    ELSE LET idx == (start + i) % MAX_THREADS
         IN  IF thr[idx].state = "ready" THEN idx
             ELSE ScanReady(thr, start, i + 1)

\* Mutant: the scan starts at slot 0 instead of the slot after the current.
next_runnable_from_zero(thr, cur, count) ==
    IF count <= 1 THEN cur
    ELSE LET r == ScanReady(thr, 0, 0)
         IN  IF r = NoSlot THEN cur ELSE r

\* Mutant: the scan takes any slot that holds a thread that is not running.
next_runnable_takes_dead(thr, cur, count) ==
    IF count <= 1 THEN cur
    ELSE LET start == (cur + 1) % MAX_THREADS
             cand == {i \in 0..(MAX_THREADS - 1) :
                        thr[(start + i) % MAX_THREADS].state
                            \in {"ready", "dead"}}
         IN  IF cand = {} THEN cur
             ELSE (start + CHOOSE i \in cand : \A j \in cand : i <= j)
                     % MAX_THREADS

next_runnable(thr, cur, count) ==
    IF count <= 1 THEN cur
    ELSE LET r == ScanReady(thr, (cur + 1) % MAX_THREADS, 0)
         IN  IF r = NoSlot THEN cur ELSE r

\* Mutant: the outgoing thread is left in state running.
scheduler_yield_keeps_prev_running(thr, cur, count, req) ==
    LET next == next_runnable(thr, cur, count)
    IN  IF req = 0 /\ next = cur
        THEN [threads |-> thr, current |-> cur, switched |-> FALSE]
        ELSE [threads  |-> [thr EXCEPT ![next].state = "running",
                                       ![cur].context = "saved"],
              current  |-> next,
              switched |-> TRUE]

\* scheduler_yield without the early return.
scheduler_yield_without_early_return(thr, cur, count, req) ==
    LET next == next_runnable(thr, cur, count)
        t1 == [thr EXCEPT ![next].state = "running"]
        t2 == IF t1[cur].state = "running"
              THEN [t1 EXCEPT ![cur].state = "ready"]
              ELSE t1
    IN  [threads  |-> [t2 EXCEPT ![cur].context = "saved"],
         current  |-> next,
         switched |-> TRUE]

\* scheduler_yield with interrupts disabled: the thread table and
\* current_thread it leaves, and whether arch_context_switch is reached
\* (which saves the outgoing context and loads next's).
scheduler_yield(thr, cur, count, req) ==
    LET next == next_runnable(thr, cur, count)
    IN  IF req = 0 /\ next = cur
        THEN [threads |-> thr, current |-> cur, switched |-> FALSE]
        ELSE LET t1 == [thr EXCEPT ![next].state = "running"]
                 t2 == IF t1[cur].state = "running"
                       THEN [t1 EXCEPT ![cur].state = "ready"]
                       ELSE t1
             IN  [threads  |-> [t2 EXCEPT ![cur].context = "saved"],
                  current  |-> next,
                  switched |-> TRUE]

\* Where the thread that holds the CPU after a scheduler_yield goes on: a
\* new thread enters its entry function through the trampoline, a thread
\* whose trampoline had called the yield falls into the hlt loop.
Resume(thr, n) ==
    CASE thr[n].at = "start" -> [thr EXCEPT ![n].at = "entry"]
      [] thr[n].at = "exit"  -> [thr EXCEPT ![n].at = "halt"]
      [] OTHER               -> thr

\* No scheduler_yield under way: interrupts enabled, no timer interrupt
\* pending.
NoYield ==
    [pc |-> 0, ints |-> TRUE, next |-> 0, requested |-> 0, ret |-> FALSE,
     prev |-> 0, irq |-> FALSE, owed |-> FALSE]

\* scheduler_init
SchedInit ==
    /\ threads = [i \in Slots |->
                    IF i = 0 THEN [state |-> "running",
                                   context |-> "boot_rsp", at |-> "entry"]
                    ELSE UnusedSlot]
    /\ current_thread = 0
    /\ thread_count = 1
    /\ reschedule_requested = 0
    /\ sop = [op |-> "init", who |-> 0, req |-> 0]
    /\ order = <<0>>
    /\ yld = NoYield

\* scheduler_create called by the running thread; kmalloc of the stack
\* succeeds (ok) or not.
scheduler_create(thr, count, ok) ==
    LET t == allocate_thread_slot(thr)
    IN  IF t = NoSlot THEN [threads |-> thr, count |-> count, slot |-> NoSlot]
        ELSE IF ~ok
        THEN [threads |-> [thr EXCEPT ![t] = UnusedSlot],
              count |-> count, slot |-> NoSlot]
        ELSE [threads |-> [thr EXCEPT ![t] = [state |-> "ready",
                                              context |-> "stack_top",
                                              at |-> "start"]],
              count |-> count + 1, slot |-> t]

SchedulerCreate(ok) ==
    /\ threads[current_thread].at = "entry"
    /\ thread_count < MaxCreated
    /\ LET r == scheduler_create(threads, thread_count, ok)
       IN  /\ threads' = r.threads
           /\ thread_count' = r.count
           /\ sop' = [op |-> IF r.slot = NoSlot THEN "create_failed"
                             ELSE "create",
                      who |-> allocate_thread_slot(threads), req |-> 0]
    /\ order' = <<current_thread>>
    /\ UNCHANGED <<current_thread, reschedule_requested, yld>>

\* Mutant: the tick handler switches threads itself.
scheduler_on_tick_switches(thr, cur, count, req) ==
    LET r == scheduler_yield(thr, cur, count, 1)
    IN  [threads |-> Resume(r.threads, r.current), current |-> r.current,
         req |-> 1]

\* scheduler_on_tick
scheduler_on_tick(thr, cur, count, req) ==
    [threads |-> thr, current |-> cur, req |-> 1]

SchedulerOnTick ==
    /\ LET r == scheduler_on_tick(threads, current_thread, thread_count,
                                  reschedule_requested)
       IN  /\ threads' = r.threads
           /\ current_thread' = r.current
           /\ reschedule_requested' = r.req
    /\ sop' = [op |-> "tick", who |-> current_thread,
               req |-> reschedule_requested]
    /\ UNCHANGED <<thread_count, order, yld>>

Ran(ord, t) ==
    LET o == Append(ord, t)
    IN  IF Len(o) > OrderLen THEN Tail(o) ELSE o

\* scheduler_yield called by the running thread, from its entry function or
\* from the trampoline after the entry returned.
SchedulerYield ==
    /\ threads[current_thread].at \in {"entry", "exit"}
    /\ LET r == scheduler_yield(threads, current_thread, thread_count,
                                reschedule_requested)
       IN  /\ threads' = Resume(r.threads, r.current)
           /\ current_thread' = r.current
           /\ order' = IF r.switched THEN Ran(order, r.current) ELSE order
    /\ reschedule_requested' = 0
    /\ sop' = [op |-> "yield", who |-> current_thread,
               req |-> reschedule_requested]
    /\ UNCHANGED <<thread_count, yld>>

\* thread_trampoline after self->entry(self->arg) returned:
\* self->state = THREAD_DEAD (the scheduler_yield that follows is the next
\* step of this thread). Slot 0, the bootstrap thread, has no trampoline.
ThreadExit ==
    /\ current_thread # 0
    /\ threads[current_thread].at = "entry"
    /\ threads' = [threads EXCEPT ![current_thread].state = "dead",
                                  ![current_thread].at = "exit"]
    /\ sop' = [op |-> "exit", who |-> current_thread, req |-> 0]
    /\ order' = <<current_thread>>
    /\ UNCHANGED <<current_thread, thread_count, reschedule_requested, yld>>

\* init_idt: the handler installed at each vector (idt_set_gate).
idt_gate(vector) ==
    IF vector \in 0..21 THEN "exception"
    ELSE IF vector = 32 THEN "irq0_handler"
    ELSE "not_present"

\* irq0_handler: pushes the registers, writes the EOI 0x20 to port 0x20,
\* pops the registers and returns; reschedule_requested after the handler.
irq0_handler(req) == req

\* The timer interrupt IRQ0 is delivered through vector 32.
Irq0Deliver ==
    /\ idt_gate(32) = "irq0_handler"
    /\ reschedule_requested' = irq0_handler(reschedule_requested)
    /\ sop' = [op |-> "irq0", who |-> current_thread,
               req |-> reschedule_requested]
    /\ UNCHANGED <<threads, current_thread, thread_count, order, yld>>

SchedNext ==
    \/ /\ \E ok \in BOOLEAN : SchedulerCreate(ok)
       /\ UNCHANGED <<cacheVars, vmmVars, ahciVars, blockVars, cpu, pic, kboot>>
    \/ SchedulerOnTick /\ UNCHANGED <<cacheVars, vmmVars, ahciVars, blockVars, cpu, pic, kboot>>
    \/ SchedulerYield /\ UNCHANGED <<cacheVars, vmmVars, ahciVars, blockVars, cpu, pic, kboot>>
    \/ ThreadExit /\ UNCHANGED <<cacheVars, vmmVars, ahciVars, blockVars, cpu, pic, kboot>>
    \/ Irq0Deliver /\ UNCHANGED <<cacheVars, vmmVars, ahciVars, blockVars, cpu, pic, kboot>>

(***************************************************************************)
(*        core/scheduler.c: scheduler_yield statement by statement         *)
(***************************************************************************)

\* interrupts_disable (cli) and interrupts_enable (sti): the interrupt flag
\* of the CPU they leave.
interrupts_disable(ints) == FALSE
interrupts_enable(ints) == TRUE

\* scheduler_yield with the flag cleared after interrupts are enabled again.
YieldProgram_enables_before_clear ==
    << "interrupts_disable", "next_runnable", "read_flag",
       "interrupts_enable", "clear_flag", "test", "select",
       "arch_context_switch" >>

\* The statements of scheduler_yield in program order. "test" is the
\* condition of the early return; when it holds, "select" (the assignments
\* to next->state, current_thread and prev->state) and
\* "arch_context_switch" are not executed.
YieldProgram ==
    << "interrupts_disable", "next_runnable", "read_flag", "clear_flag",
       "test", "select", "interrupts_enable", "arch_context_switch" >>

Skipped(ins, ret) == ret /\ ins \in {"select", "arch_context_switch"}

\* The statement executed after statement p, 0 when the call returns.
RECURSIVE PcAfter(_, _)
PcAfter(p, ret) ==
    IF p >= Len(YieldProgram) THEN 0
    ELSE IF Skipped(YieldProgram[p + 1], ret) THEN PcAfter(p + 1, ret)
    ELSE p + 1

\* One statement of the scheduler_yield under way, or the first statement
\* of a call made by the running thread.
YieldStep ==
    /\ yld.pc = 0 => threads[current_thread].at \in {"entry", "exit"}
    /\ LET p == IF yld.pc = 0 THEN 1 ELSE yld.pc
           ins == YieldProgram[p]
           cur == current_thread
           ret == IF ins = "test"
                  THEN yld.requested = 0 /\ yld.next = cur
                  ELSE yld.pc # 0 /\ yld.ret
           q == PcAfter(p, ret)
           thr == CASE ins = "select" ->
                         [i \in Slots |->
                            [threads[i] EXCEPT
                               !.state =
                                  IF i = yld.next THEN "running"
                                  ELSE IF i = cur /\ @ = "running"
                                  THEN "ready" ELSE @]]
                    [] ins = "arch_context_switch" ->
                         [threads EXCEPT ![yld.prev].context = "saved"]
                    [] OTHER -> threads
           now == IF ins = "select" THEN yld.next ELSE cur
       IN  /\ threads' = IF q = 0 THEN Resume(thr, now) ELSE thr
           /\ current_thread' = now
           /\ reschedule_requested' =
                 IF ins = "clear_flag" THEN 0 ELSE reschedule_requested
           /\ yld' = [yld EXCEPT
                 !.pc = q,
                 !.ret = ret,
                 !.ints = CASE ins = "interrupts_disable" ->
                                  interrupts_disable(@)
                            [] ins = "interrupts_enable" ->
                                  interrupts_enable(@)
                            [] OTHER -> @,
                 !.next = IF ins = "next_runnable"
                          THEN next_runnable(threads, cur, thread_count)
                          ELSE @,
                 !.requested = IF ins = "read_flag"
                               THEN reschedule_requested ELSE @,
                 !.owed = IF ins = "read_flag" THEN FALSE ELSE @,
                 !.prev = IF ins = "select" THEN cur ELSE @]
    /\ UNCHANGED <<thread_count, sop, order>>

\* The timer raises IRQ0; the interrupt controller holds it until the CPU
\* takes it.
TimerRaise ==
    /\ ~yld.irq
    /\ yld' = [yld EXCEPT !.irq = TRUE]
    /\ UNCHANGED <<threads, current_thread, thread_count,
                   reschedule_requested, sop, order>>

\* The CPU takes the pending timer interrupt, which it does only with
\* interrupts enabled, and the tick reaches scheduler_on_tick.
TickDeliver ==
    /\ yld.irq
    /\ yld.ints
    /\ LET r == scheduler_on_tick(threads, current_thread, thread_count,
                                  reschedule_requested)
       IN  /\ threads' = r.threads
           /\ current_thread' = r.current
           /\ reschedule_requested' = r.req
    /\ yld' = [yld EXCEPT !.irq = FALSE, !.owed = TRUE]
    /\ UNCHANGED <<thread_count, sop, order>>

YieldNext ==
    \/ /\ yld.pc = 0
       /\ \E ok \in BOOLEAN : SchedulerCreate(ok)
       /\ UNCHANGED <<cacheVars, vmmVars, ahciVars, blockVars, cpu, pic, kboot>>
    \/ /\ yld.pc = 0
       /\ ThreadExit
       /\ UNCHANGED <<cacheVars, vmmVars, ahciVars, blockVars, cpu, pic, kboot>>
    \/ YieldStep /\ UNCHANGED <<cacheVars, vmmVars, ahciVars, blockVars, cpu, pic, kboot>>
    \/ TimerRaise /\ UNCHANGED <<cacheVars, vmmVars, ahciVars, blockVars, cpu, pic, kboot>>
    \/ TickDeliver /\ UNCHANGED <<cacheVars, vmmVars, ahciVars, blockVars, cpu, pic, kboot>>

(***************************************************************************)
(*                            memory/vmm.c                                 *)
(***************************************************************************)

\* Frames of the physical frame allocator's pool.
NFrames == 4
\* Page tables vmm_create_page_table is driven to create.
MaxTables == 1

\* A 64-bit word is the set of the positions of its 1 bits: & is \cap,
\* | is \cup, 0 is {}.
WordBits == 0..63
BitsOf(n) == {b \in 0..30 : (n \div (2 ^ b)) % 2 = 1}
Shl(w, k) == {b + k : b \in w} \cap WordBits
Shr(w, k) == {b - k : b \in {x \in w : x >= k}}

PAGE_PRESENT == {0}
PAGE_WRITE == {1}
PAGE_USER == {2}
PAGE_ALIGN_DOWN(addr) == addr \cap (12..63)

PML4_INDEX(virt) == Shr(virt, 39) \cap (0..8)
PDPT_INDEX(virt) == Shr(virt, 30) \cap (0..8)
PD_INDEX(virt) == Shr(virt, 21) \cap (0..8)
PT_INDEX(virt) == Shr(virt, 12) \cap (0..8)

PTE_GET_ADDR(entry) == entry \cap (12..51)

\* a + b on 64-bit words, bit by bit from bit i with the carry.
RECURSIVE AddBits(_, _, _, _)
AddBits(a, b, i, carry) ==
    IF i > 63 THEN {}
    ELSE LET sum == (IF i \in a THEN 1 ELSE 0) + (IF i \in b THEN 1 ELSE 0)
                      + carry
         IN  (IF sum % 2 = 1 THEN {i} ELSE {})
                \cup AddBits(a, b, i + 1, sum \div 2)

\* The offset of the higher-half direct map the boot loader reports:
\* 0xFFFF800000000000.
hhdm_offset == 47..63

\* hhdm_phys_to_virt: phys + hhdm_offset.
phys_to_virt(phys) ==
    IF phys \cap hhdm_offset = {} THEN phys \cup hhdm_offset
    ELSE AddBits(phys, hhdm_offset, 0, 0)

\* The physical address of frame i of the pool: i * 4096.
FrameAddr(i) == Shl(BitsOf(i), 12)

\* pmm_alloc: the first free frame of the pool and the frames left, or 0
\* when no frame is free.
pmm_alloc(free) ==
    IF free = {} THEN [addr |-> {}, free |-> free]
    ELSE LET i == CHOOSE f \in free : \A g \in free : f <= g
         IN  [addr |-> FrameAddr(i), free |-> free \ {i}]

\* Memory holding page tables: mem[<<table, index>>] is the entry at index
\* of the table at the (HHDM) address table; an entry that is 0 is absent.
Load(m, table, index) ==
    IF <<table, index>> \in DOMAIN m THEN m[<<table, index>>] ELSE {}

Store(m, table, index, entry) ==
    LET rest == DOMAIN m \ {<<table, index>>}
    IN  IF entry = {} THEN [k \in rest |-> m[k]]
        ELSE [k \in rest \cup {<<table, index>>} |->
                 IF k = <<table, index>> THEN entry ELSE m[k]]

\* memset(table, 0, PAGE_SIZE)
ZeroTable(m, table) ==
    [k \in {d \in DOMAIN m : d[1] # table} |-> m[k]]

\* The page tables the boot loader left in CR3: a PML4 whose entry 256 (the
\* higher half) points to a PDPT; both lie outside the allocator's pool.
BootPml4 == {30}
BootPdpt == {30, 12}

\* vmm_init: the handle of the kernel page table.
kernel_page_table ==
    [pml4_phys |-> BootPml4 \cap (12..63), pml4_virt |-> phys_to_virt(BootPml4)]

\* The NULL page_table_t pointer.
NullPt == [pml4_phys |-> {}, pml4_virt |-> {}]

\* No VMM call yet.
NoVop ==
    [op |-> "init", pt |-> NullPt, virt |-> {}, phys |-> {}, flags |-> {},
     ret |-> FALSE, after_map |-> FALSE]

VmmInit ==
    /\ mem = [k \in {<<phys_to_virt(BootPml4), {8}>>} |->
                 BootPdpt \cup PAGE_PRESENT \cup PAGE_WRITE]
    /\ pmm_free = 1..NFrames
    /\ page_tables = {}
    /\ vop = NoVop

\* vmm_create_page_table: the handle (NullPt when kcalloc or pmm_alloc
\* fails), memory and the allocator's free frames.
vmm_create_page_table(m, free, heap_ok) ==
    LET a == pmm_alloc(free)
        virt == phys_to_virt(a.addr)
        upper == {d \in DOMAIN m :
                    d[1] = kernel_page_table.pml4_virt /\ 8 \in d[2]}
        cleared == ZeroTable(m, virt)
    IN  IF ~heap_ok THEN [pt |-> NullPt, mem |-> m, free |-> free]
        ELSE IF a.addr = {} THEN [pt |-> NullPt, mem |-> m, free |-> free]
        ELSE [pt   |-> [pml4_phys |-> a.addr, pml4_virt |-> virt],
              mem  |-> [k \in DOMAIN cleared \cup {<<virt, d[2]>> : d \in upper}
                          |-> IF k[1] = virt
                              THEN m[<<kernel_page_table.pml4_virt, k[2]>>]
                              ELSE cleared[k]],
              free |-> a.free]

\* Mutant: an entry that exists is returned as it is, USER is not added.
get_or_create_table_no_upgrade(m, free, table, index, user_accessible) ==
    LET entry == Load(m, table, index)
        a == pmm_alloc(free)
        flags == PAGE_PRESENT \cup PAGE_WRITE
                   \cup (IF user_accessible THEN PAGE_USER ELSE {})
    IN  IF entry \cap PAGE_PRESENT # {}
        THEN [table |-> phys_to_virt(PTE_GET_ADDR(entry)), mem |-> m,
              free  |-> free]
        ELSE IF a.addr = {}
        THEN [table |-> {}, mem |-> m, free |-> free]
        ELSE [table |-> phys_to_virt(a.addr),
              mem   |-> Store(ZeroTable(m, phys_to_virt(a.addr)), table,
                              index, a.addr \cup flags),
              free  |-> a.free]

\* get_or_create_table: table is 0 (NULL) when pmm_alloc fails.
get_or_create_table(m, free, table, index, user_accessible) ==
    LET entry == Load(m, table, index)
        a == pmm_alloc(free)
        new_table_virt == phys_to_virt(a.addr)
        flags == PAGE_PRESENT \cup PAGE_WRITE
                   \cup (IF user_accessible THEN PAGE_USER ELSE {})
    IN  IF entry \cap PAGE_PRESENT # {}
        THEN [table |-> phys_to_virt(PTE_GET_ADDR(entry)),
              mem   |-> IF user_accessible /\ entry \cap PAGE_USER = {}
                        THEN Store(m, table, index, entry \cup PAGE_USER)
                        ELSE m,
              free  |-> free]
        ELSE IF a.addr = {}
        THEN [table |-> {}, mem |-> m, free |-> free]
        ELSE [table |-> new_table_virt,
              mem   |-> Store(ZeroTable(m, new_table_virt), table, index,
                              a.addr \cup flags),
              free  |-> a.free]

\* Mutant: the leaf entry is written without PAGE_PRESENT.
vmm_map_page_without_present(m, free, pt, virt0, phys0, flags) ==
    LET virt == PAGE_ALIGN_DOWN(virt0)
        phys == PAGE_ALIGN_DOWN(phys0)
        user_accessible == flags \cap PAGE_USER # {}
        l4 == get_or_create_table(m, free, pt.pml4_virt, PML4_INDEX(virt),
                                  user_accessible)
        l3 == get_or_create_table(l4.mem, l4.free, l4.table, PDPT_INDEX(virt),
                                  user_accessible)
        l2 == get_or_create_table(l3.mem, l3.free, l3.table, PD_INDEX(virt),
                                  user_accessible)
    IN  IF pt = NullPt THEN [ret |-> FALSE, mem |-> m, free |-> free]
        ELSE IF l4.table = {}
        THEN [ret |-> FALSE, mem |-> l4.mem, free |-> l4.free]
        ELSE IF l3.table = {}
        THEN [ret |-> FALSE, mem |-> l3.mem, free |-> l3.free]
        ELSE IF l2.table = {}
        THEN [ret |-> FALSE, mem |-> l2.mem, free |-> l2.free]
        ELSE [ret  |-> TRUE,
              mem  |-> Store(l2.mem, l2.table, PT_INDEX(virt),
                             phys \cup flags),
              free |-> l2.free]

\* Mutant: on failure the tables allocated so far are dropped, not linked.
vmm_map_page_drops_tables(m, free, pt, virt0, phys0, flags) ==
    LET virt == PAGE_ALIGN_DOWN(virt0)
        phys == PAGE_ALIGN_DOWN(phys0)
        user_accessible == flags \cap PAGE_USER # {}
        l4 == get_or_create_table(m, free, pt.pml4_virt, PML4_INDEX(virt),
                                  user_accessible)
        l3 == get_or_create_table(l4.mem, l4.free, l4.table, PDPT_INDEX(virt),
                                  user_accessible)
        l2 == get_or_create_table(l3.mem, l3.free, l3.table, PD_INDEX(virt),
                                  user_accessible)
    IN  IF pt = NullPt THEN [ret |-> FALSE, mem |-> m, free |-> free]
        ELSE IF l4.table = {}
        THEN [ret |-> FALSE, mem |-> m, free |-> l4.free]
        ELSE IF l3.table = {}
        THEN [ret |-> FALSE, mem |-> m, free |-> l3.free]
        ELSE IF l2.table = {}
        THEN [ret |-> FALSE, mem |-> m, free |-> l2.free]
        ELSE [ret  |-> TRUE,
              mem  |-> Store(l2.mem, l2.table, PT_INDEX(virt),
                             phys \cup flags \cup PAGE_PRESENT),
              free |-> l2.free]

\* vmm_map_page
vmm_map_page(m, free, pt, virt0, phys0, flags) ==
    LET virt == PAGE_ALIGN_DOWN(virt0)
        phys == PAGE_ALIGN_DOWN(phys0)
        user_accessible == flags \cap PAGE_USER # {}
        l4 == get_or_create_table(m, free, pt.pml4_virt, PML4_INDEX(virt),
                                  user_accessible)
        l3 == get_or_create_table(l4.mem, l4.free, l4.table, PDPT_INDEX(virt),
                                  user_accessible)
        l2 == get_or_create_table(l3.mem, l3.free, l3.table, PD_INDEX(virt),
                                  user_accessible)
    IN  IF pt = NullPt THEN [ret |-> FALSE, mem |-> m, free |-> free]
        ELSE IF l4.table = {}
        THEN [ret |-> FALSE, mem |-> l4.mem, free |-> l4.free]
        ELSE IF l3.table = {}
        THEN [ret |-> FALSE, mem |-> l3.mem, free |-> l3.free]
        ELSE IF l2.table = {}
        THEN [ret |-> FALSE, mem |-> l2.mem, free |-> l2.free]
        ELSE [ret  |-> TRUE,
              mem  |-> Store(l2.mem, l2.table, PT_INDEX(virt),
                             phys \cup flags \cup PAGE_PRESENT),
              free |-> l2.free]

\* The walk shared by vmm_unmap_page and vmm_get_physical: the page table
\* (last level) that holds virt's entry, 0 when a level is not present.
WalkToPt(m, pt, virt) ==
    LET pml4_entry == Load(m, pt.pml4_virt, PML4_INDEX(virt))
        pdpt == phys_to_virt(PTE_GET_ADDR(pml4_entry))
        pdpt_entry == Load(m, pdpt, PDPT_INDEX(virt))
        pd == phys_to_virt(PTE_GET_ADDR(pdpt_entry))
        pd_entry == Load(m, pd, PD_INDEX(virt))
    IN  IF pt = NullPt THEN {}
        ELSE IF pml4_entry \cap PAGE_PRESENT = {} THEN {}
        ELSE IF pdpt_entry \cap PAGE_PRESENT = {} THEN {}
        ELSE IF pd_entry \cap PAGE_PRESENT = {} THEN {}
        ELSE phys_to_virt(PTE_GET_ADDR(pd_entry))

\* vmm_unmap_page
vmm_unmap_page(m, pt, virt0) ==
    LET virt == PAGE_ALIGN_DOWN(virt0)
        page_table == WalkToPt(m, pt, virt)
    IN  IF page_table = {} THEN m
        ELSE Store(m, page_table, PT_INDEX(virt), {})

\* vmm_get_physical
vmm_get_physical(m, pt, virt0) ==
    LET virt == PAGE_ALIGN_DOWN(virt0)
        page_table == WalkToPt(m, pt, virt)
        pt_entry == Load(m, page_table, PT_INDEX(virt))
    IN  IF page_table = {} THEN {}
        ELSE IF pt_entry \cap PAGE_PRESENT = {} THEN {}
        ELSE PTE_GET_ADDR(pt_entry)

\* Arguments the calls are made with. Virtual addresses: 0x400008 (a byte
\* of the page the shell's vmtest maps), a higher-half page (PML4 entry
\* 256, shared with the kernel table).
VirtInputs == {{22, 3}, (47..63) \cup {21}}
\* Physical addresses: 0, 0x10010 (unaligned), 0x10000 with bit 52.
PhysInputs == {{}, {16, 4}, {16, 52}}
\* Flags: WRITE, WRITE|USER|NX (bit 63), WRITE with bit 13.
FlagInputs == {PAGE_WRITE, PAGE_WRITE \cup PAGE_USER \cup {63},
               PAGE_WRITE \cup {13}}
PtInputs == page_tables \cup {kernel_page_table, NullPt}

VmmCreatePageTable(heap_ok) ==
    /\ Cardinality(page_tables) < MaxTables
    /\ LET r == vmm_create_page_table(mem, pmm_free, heap_ok)
       IN  /\ mem' = r.mem
           /\ pmm_free' = r.free
           /\ page_tables' = IF r.pt = NullPt THEN page_tables
                             ELSE page_tables \cup {r.pt}
           /\ vop' = [NoVop EXCEPT !.op = "create", !.pt = r.pt]

\* vmm_map_page; vop keeps the arguments of a call that returned true, and
\* pt and virt of one that returned false.
VmmMapPage(pt, virt, phys, flags) ==
    /\ LET r == vmm_map_page(mem, pmm_free, pt, virt, phys, flags)
       IN  /\ mem' = r.mem
           /\ pmm_free' = r.free
           /\ vop' = IF r.ret
                     THEN [NoVop EXCEPT !.op = "map", !.pt = pt,
                                        !.virt = virt, !.phys = phys,
                                        !.flags = flags, !.ret = TRUE]
                     ELSE [NoVop EXCEPT !.op = "map", !.pt = pt,
                                        !.virt = virt]
    /\ UNCHANGED page_tables

\* vmm_unmap_page; vop keeps whether the call follows a successful
\* vmm_map_page of the same page of the same page table and, if so, the
\* phys and flags of that call.
VmmUnmapPage(pt, virt) ==
    /\ mem' = vmm_unmap_page(mem, pt, virt)
    /\ LET after == /\ vop.op = "map"
                    /\ vop.ret
                    /\ vop.pt = pt
                    /\ vop.virt = virt
       IN  vop' = [NoVop EXCEPT
                     !.op = "unmap", !.pt = pt, !.virt = virt,
                     !.phys = IF after THEN vop.phys ELSE {},
                     !.flags = IF after THEN vop.flags ELSE {},
                     !.after_map = after]
    /\ UNCHANGED <<pmm_free, page_tables>>

VmmNext ==
    \/ /\ \E heap_ok \in BOOLEAN : VmmCreatePageTable(heap_ok)
       /\ UNCHANGED <<cacheVars, schedVars, ahciVars, blockVars, cpu, pic, kboot>>
    \/ /\ \E pt \in PtInputs, virt \in VirtInputs,
             phys \in PhysInputs, flags \in FlagInputs :
             VmmMapPage(pt, virt, phys, flags)
       /\ UNCHANGED <<cacheVars, schedVars, ahciVars, blockVars, cpu, pic, kboot>>
    \/ /\ \E pt \in PtInputs, virt \in VirtInputs : VmmUnmapPage(pt, virt)
       /\ UNCHANGED <<cacheVars, schedVars, ahciVars, blockVars, cpu, pic, kboot>>

\* Kernel-space calls: upper-half virtual addresses (bit 47 set, PML4
\* entries 256..511), one under PML4 entry 256 (present in the kernel table
\* at boot) and 0xFFFF808000001000 under entry 257 (absent at boot).
UpperHalf == {(47..63) \cup {21}, (47..63) \cup {39, 12}}

\* Page tables are created, and pages of the upper half are mapped and
\* unmapped in the kernel table only.
VmmKernelNext ==
    \/ /\ \E heap_ok \in BOOLEAN : VmmCreatePageTable(heap_ok)
       /\ UNCHANGED <<cacheVars, schedVars, ahciVars, blockVars, cpu, pic, kboot>>
    \/ /\ \E virt \in UpperHalf, phys \in PhysInputs, flags \in FlagInputs :
             VmmMapPage(kernel_page_table, virt, phys, flags)
       /\ UNCHANGED <<cacheVars, schedVars, ahciVars, blockVars, cpu, pic, kboot>>
    \/ /\ \E virt \in UpperHalf : VmmUnmapPage(kernel_page_table, virt)
       /\ UNCHANGED <<cacheVars, schedVars, ahciVars, blockVars, cpu, pic, kboot>>

(***************************************************************************)
(*                        drivers/ahci/ahci.c                              *)
(***************************************************************************)

PAGE_SIZE == 4096
\* The sector size ahci_rw multiplies sector_count by.
SECTOR_SIZE == 512
AHCI_MAX_PRDT == 128
\* MAX_DBC of build_prdt_from_phys_contig: 4 MiB.
MAX_DBC == 4194304
ATA_CMD_READ_DMA_EXT == 37
ATA_CMD_WRITE_DMA_EXT == 53
ATA_CMD_FLUSH_CACHE_EXT == 234

\* Iterations of the three poll loops (the driver has 200000, 1000 and
\* 400000).
PollBusyLimit == 2
PollLatchLimit == 2
PollDoneLimit == 2
\* Largest sector_count of a call.
MaxCount == 2

PxCMD_ST == {0}
PxCMD_FRE == {4}
\* PxTFD: ERR is bit 0, DRQ bit 3 (0x08), BSY bit 7 (0x80); PxCI: slot 0.
TFD_ERR == {0}
TFD_BUSY == {7, 3}
SlotMask == {0}

\* Memory is kept in cells of one sector; ram[a] is the contents of the
\* cell at physical address a, 0 (zero bytes) when absent. adisk[lba] is
\* the contents of a sector of the disk, likewise. The contents of a frame
\* are followed while the frame is allocated: what a free frame holds is
\* written before it is read.
CellLoad(r, a) == IF a \in DOMAIN r THEN r[a] ELSE 0

\* The cells at addrs[i] take vals[i].
CellStore(r, addrs, vals) ==
    LET n == Len(addrs)
        new(a) == LET i == CHOOSE j \in 1..n :
                              addrs[j] = a /\ \A k \in (j + 1)..n : addrs[k] # a
                  IN  vals[i]
        touched == {addrs[i] : i \in 1..n}
        val(a) == IF a \in touched THEN new(a) ELSE r[a]
        dom == {a \in DOMAIN r \cup touched : val(a) # 0}
    IN  [a \in dom |-> val(a)]

\* a + b on 64-bit words.
Plus(a, b) == IF a \cap b = {} THEN a \cup b ELSE AddBits(a, b, 0, 0)

Tracked(r, free) ==
    [a \in {x \in DOMAIN r :
               \A f \in free : PAGE_ALIGN_DOWN(x) # FrameAddr(f)} |-> r[a]]

\* A pointer into a buffer: the page and the offset in the page.
\* ptr + bytes.
PtrAdd(ptr, bytes) ==
    LET total == ptr.off + bytes
        RECURSIVE Pages(_, _)
        Pages(page, n) ==
            IF n = 0 THEN page ELSE Pages(Plus(page, {12}), n - 1)
    IN  [page |-> Pages(ptr.page, total \div PAGE_SIZE),
         off |-> total % PAGE_SIZE]

\* The two pages the callers' buffers lie in and the frames that back them
\* (what the CPU reaches through the address); the frames are not adjacent.
BufPage1 == (47..63) \cup {21}
BufPage2 == (47..63) \cup {21, 12}
Backing(page) == IF page = BufPage1 THEN {18} ELSE {16}

\* The physical address of sector i (from 0) of the buffer, as the CPU
\* reaches it.
CpuCell(buffer, i) ==
    LET p == PtrAdd(buffer, i * SECTOR_SIZE)
    IN  Plus(Backing(p.page), BitsOf(p.off))

\* The pattern the caller fills its buffer with: sector i of pattern p.
Pat(p, i) == 10 * p + i

\* The caller fills its buffer, MaxCount sectors long (do_diskwrite and
\* do_diskread fill whole pages).
CallerFill(r, buffer, p) ==
    CellStore(r, [i \in 1..MaxCount |-> CpuCell(buffer, i - 1)],
                 [i \in 1..MaxCount |-> IF p = 0 THEN 0 ELSE Pat(p, i - 1)])

\* build_prdt_from_virt: the PRDT entries for bytes at buffer, <<>> for the
\* return value 0.
RECURSIVE build_prdt_from_virt_loop(_, _, _, _)
\* build_prdt_from_virt with one entry for the whole buffer.
build_prdt_from_virt_loop_one_chunk(m, va, remaining, prdt) ==
    LET pa_page == vmm_get_physical(m, kernel_page_table, va.page)
        pa == Plus(pa_page, BitsOf(va.off))
    IN  IF pa_page = {} THEN <<>>
        ELSE <<[dba |-> pa \cap (0..31), dbau |-> Shr(pa, 32),
                dbc |-> remaining - 1, i |-> 1]>>

build_prdt_from_virt_loop(m, va, remaining, prdt) ==
    IF remaining = 0 THEN prdt
    ELSE IF Len(prdt) >= AHCI_MAX_PRDT THEN <<>>
    ELSE LET va_page == va.page
             pa_page == vmm_get_physical(m, kernel_page_table, va_page)
             off == va.off
             chunk == IF PAGE_SIZE - off > remaining THEN remaining
                      ELSE PAGE_SIZE - off
             pa == Plus(pa_page, BitsOf(off))
         IN  IF pa_page = {} THEN <<>>
             ELSE build_prdt_from_virt_loop(m, PtrAdd(va, chunk),
                      remaining - chunk,
                      Append(prdt, [dba |-> pa \cap (0..31),
                                    dbau |-> Shr(pa, 32),
                                    dbc |-> chunk - 1,
                                    i |-> 1]))

build_prdt_from_virt(m, buffer, bytes) ==
    IF bytes = 0 THEN <<>>
    ELSE build_prdt_from_virt_loop(m, buffer, bytes, <<>>)

\* build_prdt_from_phys_contig
RECURSIVE build_prdt_from_phys_contig_loop(_, _, _)
build_prdt_from_phys_contig_loop(phys, remaining, prdt) ==
    IF remaining = 0 THEN prdt
    ELSE IF Len(prdt) >= AHCI_MAX_PRDT THEN <<>>
    ELSE LET chunk == IF remaining > MAX_DBC THEN MAX_DBC ELSE remaining
         IN  build_prdt_from_phys_contig_loop(
                 Plus(phys, BitsOf(chunk)), remaining - chunk,
                 Append(prdt, [dba |-> phys \cap (0..31),
                               dbau |-> Shr(phys, 32),
                               dbc |-> chunk - 1,
                                    i |-> 1]))

build_prdt_from_phys_contig(phys, bytes) ==
    IF phys = {} \/ bytes = 0 THEN <<>>
    ELSE build_prdt_from_phys_contig_loop(phys, bytes, <<>>)

\* pmm_alloc_pages: the lowest run of pages adjacent free frames.
pmm_alloc_pages(free, pages) ==
    LET runs == {i \in free : \A k \in 0..(pages - 1) : i + k \in free}
    IN  IF runs = {} THEN [addr |-> {}, free |-> free]
        ELSE LET i == CHOOSE f \in runs : \A g \in runs : f <= g
             IN  [addr |-> FrameAddr(i),
                  free |-> free \ {i + k : k \in 0..(pages - 1)}]

\* pmm_free_pages
pmm_free_pages(free, addr, pages) ==
    LET i == CHOOSE f \in 1..NFrames : FrameAddr(f) = addr
    IN  free \cup {i + k : k \in 0..(pages - 1)}

\* dma_alloc_contig
dma_alloc_contig(free, bytes) ==
    LET pages == (bytes + PAGE_SIZE - 1) \div PAGE_SIZE
        a == pmm_alloc_pages(free, pages)
    IN  IF bytes = 0 THEN [ok |-> FALSE, phys |-> {}, pages |-> 0,
                           free |-> free]
        ELSE IF a.addr = {} THEN [ok |-> FALSE, phys |-> {}, pages |-> 0,
                                  free |-> free]
        ELSE [ok |-> TRUE, phys |-> a.addr, pages |-> pages,
              free |-> a.free]

NoBounce == [phys |-> {}, pages |-> 0]

\* The register FIS ahci_rw and ahci_nodata write: command, the six LBA
\* bytes and the two count bytes.
Fis(ata_cmd, lba, sector_count) ==
    [command |-> ata_cmd,
     lba |-> <<lba % 256, (lba \div 256) % 256, (lba \div 65536) % 256,
               (lba \div 16777216) % 256,
               ((lba \div 16777216) \div 256) % 256,
               ((lba \div 16777216) \div 65536) % 256>>,
     countl |-> sector_count % 256,
     counth |-> (sector_count \div 256) % 256]

NoCt == [w |-> 0, prdt |-> <<>>, cfis |-> Fis(0, 0, 0)]

\* ---- the device ----

\* The LBA and sector count the device reads from the FIS (a count of 0
\* stands for 65536).
FisLba(f) ==
    f.lba[1] + 256 * f.lba[2] + 65536 * f.lba[3] + 16777216 * f.lba[4]
FisCount(f) ==
    LET n == f.countl + 256 * f.counth IN IF n = 0 THEN 65536 ELSE n

\* The physical addresses of the sectors a PRDT describes, in order.
RECURSIVE PrdtCells(_)
PrdtCells(prdt) ==
    IF prdt = <<>> THEN <<>>
    ELSE LET e == prdt[1]
             base == e.dba \cup Shl(e.dbau, 32)
             n == (e.dbc + 1) \div SECTOR_SIZE
         IN  [i \in 1..n |->
                 Plus(base, Shl(BitsOf(i - 1), 9))]
             \o PrdtCells(Tail(prdt))

Min(a, b) == IF a < b THEN a ELSE b

\* The device executes the command of slot 0: the memory and the disk
\* afterwards.
DeviceDma(r, d, table) ==
    LET cells == PrdtCells(table.prdt)
        n == Min(FisCount(table.cfis), Len(cells))
        lba == FisLba(table.cfis)
    IN  IF table.cfis.command = ATA_CMD_WRITE_DMA_EXT
        THEN [ram |-> r,
              disk |-> CellStore(d, [i \in 1..n |-> lba + i - 1],
                                    [i \in 1..n |-> CellLoad(r, cells[i])])]
        ELSE IF table.cfis.command = ATA_CMD_READ_DMA_EXT
        THEN [ram |-> CellStore(r, [i \in 1..n |-> cells[i]],
                                   [i \in 1..n |-> CellLoad(d, lba + i - 1)]),
              disk |-> d]
        ELSE [ram |-> r, disk |-> d]

\* ---- the driver ----

\* done: "no" before the write to PxCI; then "unlatched" when the
\* controller shows no command in PxCI, else "pending" until the device
\* finishes the command, "ok" or "err" afterwards.
NoCall ==
    [ata_cmd |-> 0, lba |-> 0, sector_count |-> 0,
     buffer |-> [page |-> {}, off |-> 0], is_write |-> FALSE,
     pattern |-> 0, bounce |-> NoBounce, done |-> "no"]

\* No call has returned yet.
NoAop ==
    [op |-> "init", lba |-> 0, sector_count |-> 0, ret |-> FALSE,
     path |-> "none", data |-> <<>>, after_write |-> 0]

\* Before the loop of ahci_probe_mmio: no disk selected. seen: the bits of
\* CR and FR set in PxCMD when PxCLB .. PxFBU were written; timed_out: a
\* drain loop of the port ran out with its bit still set.
NoIport ==
    [pc |-> "probe", port |-> 0, i |-> 0, PxCMD |-> {}, ready |-> FALSE,
     programmed |-> FALSE, seen |-> {}, timed_out |-> FALSE]

AhciProbeInit == iport = NoIport

\* The state after ahci_probe_mmio selected a disk: ahci_init_port has
\* started the port and set g_disk.ready. (The run of ahci_probe_mmio
\* itself is followed from its start, in iport, by SpecAhciProbe.)
AhciInit ==
    /\ g_disk = [ready |-> TRUE]
    /\ port = [PxCMD |-> PxCMD_ST \cup PxCMD_FRE, PxTFD |-> {}, PxCI |-> {}]
    /\ ct = NoCt
    /\ ram = <<>>
    /\ adisk = <<>>
    /\ a_pc = "idle"
    /\ a_i = 0
    /\ a_call = NoCall
    /\ aop = NoAop
    /\ AhciProbeInit

\* port_start
port_start(p) == [p EXCEPT !.PxCMD = @ \cup PxCMD_FRE \cup PxCMD_ST]

OpName(c) ==
    IF c.ata_cmd = ATA_CMD_FLUSH_CACHE_EXT THEN "flush"
    ELSE IF c.is_write THEN "write" ELSE "read"

\* The pattern of the write that returned true just before the call c, a
\* read of the same sectors; 0 when c is not such a read.
AfterWrite(c) ==
    IF /\ OpName(c) = "read"
       /\ aop.op = "write"
       /\ aop.ret
       /\ aop.lba = c.lba
       /\ aop.sector_count = c.sector_count
    THEN aop.after_write
    ELSE 0

\* The caller reuses its buffer: what a read had left in it is gone.
ForgetData(a) ==
    IF a.op = "read" THEN [a EXCEPT !.data = <<>>, !.after_write = 0] ELSE a

\* The call returns: the bounce buffer is copied out (a read that
\* succeeded) and freed. aop keeps what the caller of a read that returned
\* true finds in its buffer; the caller is done with its buffer.
AhciReturn(ret) ==
    LET c == a_call
        using_bounce == c.bounce # NoBounce
        out == CellStore(ram,
                   [i \in 1..c.sector_count |-> CpuCell(c.buffer, i - 1)],
                   [i \in 1..c.sector_count |->
                       CellLoad(ram, Plus(c.bounce.phys,
                                          Shl(BitsOf(i - 1), 9)))])
        final == IF using_bounce /\ ret /\ ~c.is_write THEN out ELSE ram
    IN  /\ pmm_free' = IF using_bounce
                       THEN pmm_free_pages(pmm_free, c.bounce.phys,
                                           c.bounce.pages)
                       ELSE pmm_free
        /\ ram' = <<>>
        /\ aop' = IF ~ret THEN [NoAop EXCEPT !.op = OpName(c)]
                  ELSE [op |-> OpName(c), lba |-> c.lba,
                        sector_count |-> c.sector_count, ret |-> TRUE,
                        path |-> IF OpName(c) = "flush" THEN "none"
                                 ELSE IF using_bounce THEN "bounce"
                                 ELSE "direct",
                        data |-> IF OpName(c) = "read"
                                 THEN [i \in 1..c.sector_count |->
                                         CellLoad(final,
                                                  CpuCell(c.buffer, i - 1))]
                                 ELSE <<>>,
                        after_write |-> IF c.is_write THEN c.pattern
                                        ELSE AfterWrite(c)]
        /\ a_pc' = "idle"
        /\ a_i' = 0
        /\ a_call' = NoCall

\* ahci_read / ahci_write up to the first poll: the caller has filled its
\* buffer (with the pattern for a write, with zeroes for a read).
AhciRw(is_write, lba, sector_count, buffer, pattern) ==
    /\ a_pc = "idle"
    /\ IF ~g_disk.ready \/ sector_count = 0
       THEN /\ aop' = [NoAop EXCEPT !.op = IF is_write THEN "write"
                                           ELSE "read"]
            /\ UNCHANGED <<port, ram, a_pc, a_i, a_call>>
       ELSE /\ ram' = CallerFill(ram, buffer,
                                 IF is_write THEN pattern ELSE 0)
            /\ port' = IF (PxCMD_ST \cup PxCMD_FRE) \subseteq port.PxCMD
                       THEN port ELSE port_start(port)
            /\ a_pc' = "wait_not_busy"
            /\ a_i' = 0
            /\ a_call' = [NoCall EXCEPT
                   !.ata_cmd = IF is_write THEN ATA_CMD_WRITE_DMA_EXT
                               ELSE ATA_CMD_READ_DMA_EXT,
                   !.lba = lba, !.sector_count = sector_count,
                   !.buffer = buffer, !.is_write = is_write,
                   !.pattern = IF is_write THEN pattern ELSE 0]
            /\ aop' = ForgetData(aop)
    /\ UNCHANGED <<g_disk, ct, adisk, mem, pmm_free>>

\* ahci_flush (ahci_nodata) up to the first poll.
AhciFlush ==
    /\ a_pc = "idle"
    /\ IF ~g_disk.ready
       THEN /\ aop' = [NoAop EXCEPT !.op = "flush"]
            /\ UNCHANGED <<port, a_pc, a_i, a_call>>
       ELSE /\ port' = IF (PxCMD_ST \cup PxCMD_FRE) \subseteq port.PxCMD
                       THEN port ELSE port_start(port)
            /\ a_pc' = "wait_not_busy"
            /\ a_i' = 0
            /\ a_call' = [NoCall EXCEPT !.ata_cmd = ATA_CMD_FLUSH_CACHE_EXT]
            /\ aop' = ForgetData(aop)
    /\ UNCHANGED <<g_disk, ct, ram, adisk, mem, pmm_free>>

\* port_wait_not_busy, iteration i with the value read from PxTFD: "go"
\* (return true), "again", or "fail" (return false).
port_wait_not_busy_unbounded(i, tfd) ==
    IF tfd \cap TFD_BUSY = {} THEN "go" ELSE "again"

port_wait_not_busy(i, tfd) ==
    IF i >= PollBusyLimit THEN "fail"
    ELSE IF tfd \cap TFD_BUSY = {} THEN "go"
    ELSE "again"

\* The part of ahci_rw / ahci_nodata between the two waits: the command
\* header, the PRDT (the caller's pages, or a bounce buffer), the FIS, and
\* the write of PxCI, which the port latches or not.
AhciIssue(latch) ==
    LET c == a_call
        bytes == c.sector_count * SECTOR_SIZE
        nodata == c.ata_cmd = ATA_CMD_FLUSH_CACHE_EXT
        direct == build_prdt_from_virt(mem, c.buffer, bytes)
        using_bounce == ~nodata /\ direct = <<>>
        b == dma_alloc_contig(pmm_free, bytes)
        staged == CellStore(ram,
                     [i \in 1..c.sector_count |->
                         Plus(b.phys, Shl(BitsOf(i - 1), 9))],
                     [i \in 1..c.sector_count |->
                         IF c.is_write
                         THEN CellLoad(ram, CpuCell(c.buffer, i - 1))
                         ELSE 0])
        prdt == IF nodata THEN <<>>
                ELSE IF using_bounce
                THEN build_prdt_from_phys_contig(b.phys, bytes)
                ELSE direct
        table == [w |-> IF c.ata_cmd = ATA_CMD_WRITE_DMA_EXT THEN 1 ELSE 0,
                  prdt |-> prdt,
                  cfis |-> IF nodata THEN Fis(c.ata_cmd, 0, 0)
                           ELSE Fis(c.ata_cmd, c.lba, c.sector_count)]
    IN  IF using_bounce /\ (~b.ok \/ prdt = <<>>)
        THEN /\ AhciReturn(FALSE)
             /\ UNCHANGED <<port, ct>>
        ELSE /\ ram' = IF using_bounce THEN staged ELSE ram
             /\ pmm_free' = IF using_bounce THEN b.free ELSE pmm_free
             /\ port' = IF latch THEN [port EXCEPT !.PxCI = @ \cup SlotMask]
                        ELSE port
             /\ ct' = IF latch \/ port.PxCI \cap SlotMask # {} THEN table
                      ELSE NoCt
             /\ a_call' = [c EXCEPT
                   !.bounce = IF using_bounce
                              THEN [phys |-> b.phys, pages |-> b.pages]
                              ELSE @,
                   !.done = IF latch \/ port.PxCI \cap SlotMask # {}
                            THEN "pending" ELSE "unlatched"]
             /\ a_pc' = "latch"
             /\ a_i' = 0
             /\ UNCHANGED aop

\* One iteration of port_wait_not_busy, and what follows its return. The
\* read of PxTFD gives the error bit the last command left and the BSY and
\* DRQ bits the device shows at that moment (busy).
PortWaitNotBusy(busy) ==
    /\ a_pc = "wait_not_busy"
    /\ LET r == port_wait_not_busy(a_i, port.PxTFD \cup busy)
       IN  \/ /\ r = "again"
              /\ a_i' = a_i + 1
              /\ UNCHANGED <<port, ct, ram, pmm_free, a_pc, a_call, aop>>
           \/ /\ r = "fail"
              /\ AhciReturn(FALSE)
              /\ UNCHANGED <<port, ct>>
           \/ /\ r = "go"
              /\ \E latch \in BOOLEAN : AhciIssue(latch)
    /\ UNCHANGED <<g_disk, adisk, mem>>

\* port_issue_and_wait, first loop: iteration i with the value read from
\* PxCI.
port_issue_latch(i, ci) ==
    IF i >= PollLatchLimit THEN "fail"
    ELSE IF ci \cap SlotMask # {} THEN "go"
    ELSE "again"

PortIssueLatch ==
    /\ a_pc = "latch"
    /\ LET r == port_issue_latch(a_i, port.PxCI)
       IN  \/ /\ r = "again"
              /\ a_i' = a_i + 1
              /\ UNCHANGED <<ram, pmm_free, a_pc, a_call, aop>>
           \/ /\ r = "fail"
              /\ AhciReturn(FALSE)
           \/ /\ r = "go"
              /\ a_pc' = "complete"
              /\ a_i' = 0
              /\ UNCHANGED <<ram, pmm_free, a_call, aop>>
    /\ UNCHANGED <<g_disk, port, ct, adisk, mem>>

\* port_issue_and_wait, second loop and the checks after it: iteration i
\* with the values read from PxCI and PxTFD: "again", "timeout", "error"
\* or "ok".
port_issue_wait(i, ci, tfd) ==
    IF i < PollDoneLimit /\ ci \cap SlotMask # {} THEN "again"
    ELSE IF ci \cap SlotMask # {} THEN "timeout"
    ELSE IF tfd \cap TFD_ERR # {} THEN "error"
    ELSE "ok"

PortIssueWait ==
    /\ a_pc = "complete"
    /\ LET r == port_issue_wait(a_i, port.PxCI, port.PxTFD)
       IN  \/ /\ r = "again"
              /\ a_i' = a_i + 1
              /\ UNCHANGED <<ram, pmm_free, a_pc, a_call, aop>>
           \/ /\ r \in {"timeout", "error"}
              /\ AhciReturn(FALSE)
           \/ /\ r = "ok"
              /\ AhciReturn(TRUE)
    /\ UNCHANGED <<g_disk, port, ct, adisk, mem>>

\* The device finishes the command of slot 0, at any time after its issue:
\* with err it sets the error bit of the task file and moves no data. ct
\* is the command as the device will execute it, and is empty afterwards.
\* Between calls no buffer is in use and the data moved is dropped.
DeviceComplete(err) ==
    /\ port.PxCI \cap SlotMask # {}
    /\ LET r == DeviceDma(ram, adisk, ct)
       IN  /\ ram' = IF err \/ a_pc = "idle" THEN ram
                     ELSE Tracked(r.ram, pmm_free)
           /\ adisk' = IF err THEN adisk ELSE r.disk
    /\ port' = [port EXCEPT !.PxCI = @ \ SlotMask,
                            !.PxTFD = IF err THEN TFD_ERR ELSE {}]
    /\ ct' = NoCt
    /\ a_call' = IF a_pc \in {"latch", "complete"}
                 THEN [a_call EXCEPT !.done = IF err THEN "err" ELSE "ok"]
                 ELSE a_call
    /\ UNCHANGED <<g_disk, a_pc, a_i, aop, mem, pmm_free>>

\* A page of a caller's buffer is entered in the kernel page table.
AhciMapBuffer(page) ==
    /\ a_pc = "idle"
    /\ vmm_get_physical(mem, kernel_page_table, page) = {}
    /\ page = BufPage2
         => vmm_get_physical(mem, kernel_page_table, BufPage1) # {}
    /\ LET r == vmm_map_page(mem, pmm_free, kernel_page_table, page,
                             Backing(page), PAGE_PRESENT \cup PAGE_WRITE)
       IN  /\ r.ret
           /\ mem' = r.mem
           /\ pmm_free' = r.free
    /\ UNCHANGED <<g_disk, port, ct, ram, adisk, a_pc, a_i, a_call, aop>>

\* What a read of PxTFD shows of BSY and DRQ: neither, BSY, DRQ.
BusyInputs == {{}, {7}, {3}}
LbaInputs == {65791}
\* A buffer that starts in the last sector of a page.
BufferInputs == {[page |-> BufPage1, off |-> 3584]}
PatternInputs == {1}

AhciNext ==
    \/ /\ \E is_write \in BOOLEAN, lba \in LbaInputs,
             sector_count \in 0..MaxCount, buffer \in BufferInputs,
             pattern \in PatternInputs :
             AhciRw(is_write, lba, sector_count, buffer, pattern)
       /\ UNCHANGED <<cacheVars, schedVars, page_tables, vop, blockVars, cpu, pic, kboot,
                       iport>>
    \/ /\ AhciFlush
       /\ UNCHANGED <<cacheVars, schedVars, page_tables, vop, blockVars, cpu, pic, kboot,
                       iport>>
    \/ /\ \E busy \in BusyInputs : PortWaitNotBusy(busy)
       /\ UNCHANGED <<cacheVars, schedVars, page_tables, vop, blockVars, cpu, pic, kboot,
                       iport>>
    \/ /\ PortIssueLatch
       /\ UNCHANGED <<cacheVars, schedVars, page_tables, vop, blockVars, cpu, pic, kboot,
                       iport>>
    \/ /\ PortIssueWait
       /\ UNCHANGED <<cacheVars, schedVars, page_tables, vop, blockVars, cpu, pic, kboot,
                       iport>>
    \/ /\ \E err \in BOOLEAN : DeviceComplete(err)
       /\ UNCHANGED <<cacheVars, schedVars, page_tables, vop, blockVars, cpu, pic, kboot,
                       iport>>
    \/ /\ \E page \in {BufPage1, BufPage2} : AhciMapBuffer(page)
       /\ UNCHANGED <<cacheVars, schedVars, page_tables, vop, blockVars, cpu, pic, kboot,
                       iport>>

\* ---- ahci_probe_mmio and ahci_init_port, at boot ----

PxCMD_FR == {14}
PxCMD_CR == {15}

\* Number of ports the HBA implements (CAP.NP + 1, all set in PI).
NPorts == 3
\* Iterations of each drain loop of port_stop (20000 in the source).
DrainLimit == 2

\* PxCMD as the firmware may have left it: the port idle, running, or with
\* only the FIS receive engine on.
BootCmdInputs ==
    { {},
      PxCMD_ST \cup PxCMD_FRE \cup PxCMD_FR \cup PxCMD_CR,
      PxCMD_FRE \cup PxCMD_FR }

\* One pass of the loop of ahci_probe_mmio over a port: active says that
\* the port shows an active SATA disk (DET = 3, IPM = 1, the ATA
\* signature). ahci_init_port is entered when no disk is selected yet; its
\* port_stop clears ST and goes into the first drain loop.
ProbePort(active, cmd) ==
    /\ iport.pc = "probe"
    /\ iport.port < NPorts
    /\ iport' = IF ~iport.ready /\ active
                THEN [iport EXCEPT !.pc = "stop_cr", !.i = 0,
                                   !.PxCMD = cmd \ PxCMD_ST,
                                   !.programmed = FALSE, !.seen = {},
                                   !.timed_out = FALSE]
                ELSE [iport EXCEPT !.port = @ + 1]

\* A drain loop of port_stop, iteration i with the value read from PxCMD,
\* waiting for bit: "again", or "out" (the loop is left, by the break or
\* because i reached the limit).
port_stop_drain(i, cmd, bit) ==
    IF i < DrainLimit /\ cmd \cap bit # {} THEN "again" ELSE "out"

\* port_stop, the loop on PxCMD.CR and, after it, the clearing of FRE.
PortStopCr ==
    /\ iport.pc = "stop_cr"
    /\ iport' = IF port_stop_drain(iport.i, iport.PxCMD, PxCMD_CR) = "again"
                THEN [iport EXCEPT !.i = @ + 1]
                ELSE [iport EXCEPT
                        !.pc = "stop_fr", !.i = 0,
                        !.PxCMD = @ \ PxCMD_FRE,
                        !.timed_out = @ \/ iport.PxCMD \cap PxCMD_CR # {}]

\* port_stop, the loop on PxCMD.FR; port_stop returns nothing.
PortStopFr ==
    /\ iport.pc = "stop_fr"
    /\ iport' = IF port_stop_drain(iport.i, iport.PxCMD, PxCMD_FR) = "again"
                THEN [iport EXCEPT !.i = @ + 1]
                ELSE [iport EXCEPT
                        !.pc = "program", !.i = 0,
                        !.timed_out = @ \/ iport.PxCMD \cap PxCMD_FR # {}]

\* ahci_init_port after port_stop: the three pmm_alloc (alloc_ok: all
\* succeed), the writes of PxCLB, PxCLBU, PxFB and PxFBU, port_start and
\* g_disk.ready = true; the loop of ahci_probe_mmio goes on to the next
\* port.
InitPortProgram(alloc_ok) ==
    /\ iport.pc = "program"
    /\ iport' = IF ~alloc_ok
                THEN [iport EXCEPT !.pc = "probe", !.port = @ + 1]
                ELSE [iport EXCEPT
                        !.pc = "probe", !.port = @ + 1,
                        !.programmed = TRUE,
                        !.seen = iport.PxCMD \cap (PxCMD_CR \cup PxCMD_FR),
                        !.PxCMD = port_start(iport).PxCMD,
                        !.ready = TRUE]

\* The HBA: the command list engine stops (CR clears) some time after ST
\* was cleared, the FIS receive engine (FR) some time after FRE was
\* cleared, or never.
HbaStops(bit) ==
    /\ iport.pc \in {"stop_cr", "stop_fr", "program"}
    /\ iport.PxCMD \cap bit # {}
    /\ bit = PxCMD_CR => iport.PxCMD \cap PxCMD_ST = {}
    /\ bit = PxCMD_FR => iport.PxCMD \cap PxCMD_FRE = {}
    /\ iport' = [iport EXCEPT !.PxCMD = @ \ bit]

AhciProbeNext ==
    \/ /\ \E active \in BOOLEAN, cmd \in BootCmdInputs :
             ProbePort(active, cmd)
       /\ UNCHANGED <<cacheVars, schedVars, vmmVars, blockVars, cpu, pic, kboot,
                       g_disk, port, ct, ram, adisk, a_pc, a_i, a_call, aop>>
    \/ /\ PortStopCr
       /\ UNCHANGED <<cacheVars, schedVars, vmmVars, blockVars, cpu, pic, kboot,
                       g_disk, port, ct, ram, adisk, a_pc, a_i, a_call, aop>>
    \/ /\ PortStopFr
       /\ UNCHANGED <<cacheVars, schedVars, vmmVars, blockVars, cpu, pic, kboot,
                       g_disk, port, ct, ram, adisk, a_pc, a_i, a_call, aop>>
    \/ /\ \E alloc_ok \in BOOLEAN : InitPortProgram(alloc_ok)
       /\ UNCHANGED <<cacheVars, schedVars, vmmVars, blockVars, cpu, pic, kboot,
                       g_disk, port, ct, ram, adisk, a_pc, a_i, a_call, aop>>
    \/ /\ \E bit \in {PxCMD_CR, PxCMD_FR} : HbaStops(bit)
       /\ UNCHANGED <<cacheVars, schedVars, vmmVars, blockVars, cpu, pic, kboot,
                       g_disk, port, ct, ram, adisk, a_pc, a_i, a_call, aop>>

(***************************************************************************)
(*      drivers/ahci/ahci.c: ahci_rw as one call, at full sector counts    *)
(***************************************************************************)

\* Sector counts around the limits of the count field of the FIS (one byte,
\* both bytes) and beyond, up to 16 PRDT entries of 4 MiB.
XferCountInputs == {1, 255, 256, 65535, 65536, 65537, 131072}
XferLbaInputs == {0, 1, 65791}
\* Where pmm_alloc_pages places the bounce buffer.
XferPhysInputs == {FrameAddr(1), FrameAddr(2)}

\* The bytes the entries of a PRDT describe.
RECURSIVE PrdtBytes(_)
PrdtBytes(prdt) ==
    IF prdt = <<>> THEN 0
    ELSE prdt[1].dbc + 1 + PrdtBytes(Tail(prdt))

\* ahci_rw from entry to return on a ready disk, for a buffer that has no
\* mapping in the kernel page table (build_prdt_from_virt returns 0, the
\* bounce buffer at phys is taken): the command table it leaves and what it
\* returns when port_issue_and_wait reports outcome. sector_count * 512
\* stays below 2^31 for these counts, so the 32-bit product is exact.
ahci_rw(is_write, lba, sector_count, phys, outcome) ==
    LET bytes == sector_count * SECTOR_SIZE
        ata_cmd == IF is_write THEN ATA_CMD_WRITE_DMA_EXT
                   ELSE ATA_CMD_READ_DMA_EXT
        prdt == build_prdt_from_phys_contig(phys, bytes)
        failed == [NoAop EXCEPT !.op = IF is_write THEN "write" ELSE "read"]
    IN  IF sector_count = 0 THEN [ct |-> ct, aop |-> failed]
        ELSE IF prdt = <<>> THEN [ct |-> NoCt, aop |-> failed]
        ELSE [ct  |-> [w |-> IF is_write THEN 1 ELSE 0,
                       prdt |-> prdt,
                       cfis |-> Fis(ata_cmd, lba, sector_count)],
              aop |-> IF outcome # "ok" THEN failed
                      ELSE [failed EXCEPT !.lba = lba,
                                          !.sector_count = sector_count,
                                          !.ret = TRUE,
                                          !.path = "bounce"]]

AhciRwCall(is_write, lba, sector_count, phys, outcome) ==
    /\ a_pc = "idle"
    /\ g_disk.ready
    /\ LET r == ahci_rw(is_write, lba, sector_count, phys, outcome)
       IN  /\ ct' = r.ct
           /\ aop' = r.aop
    /\ UNCHANGED <<g_disk, port, ram, adisk, a_pc, a_i, a_call, iport>>

AhciXferNext ==
    /\ \E is_write \in BOOLEAN, lba \in XferLbaInputs,
          sector_count \in XferCountInputs, phys \in XferPhysInputs,
          outcome \in {"ok", "err", "timeout"} :
          AhciRwCall(is_write, lba, sector_count, phys, outcome)
    /\ UNCHANGED <<cacheVars, schedVars, vmmVars, blockVars, cpu, pic, kboot>>

(***************************************************************************)
(*                       drivers/block/block.c                             *)
(***************************************************************************)

MAX_PARTITIONS == 16
\* Width of an LBA (uint64_t in the source): sums and differences of LBAs
\* are taken modulo 2^LbaBits.
LbaBits == 16
LbaMod == 2 ^ LbaBits
\* Length of the longest GPT entry array read.
MaxEntries == 18

PartTableTypes == {"PART_TABLE_NONE", "PART_TABLE_MBR", "PART_TABLE_GPT"}

\* g_boot as block_init fills it.
g_boot == [name |-> <<"a", "h", "c", "i", "0">>, sector_size |-> 512]

ZeroGuid == [i \in 1..16 |-> 0]

\* g_parts[i] with its part_ctx_t, zeroed.
NoPart ==
    [parent |-> "NULL", lba_start |-> 0, lba_count |-> 0, mbr_type |-> 0,
     is_gpt |-> FALSE, gpt_type_guid |-> ZeroGuid, name |-> <<>>,
     sector_size |-> 0, total_sectors |-> 0]

\* guid_is_zero
guid_is_zero(g) == \A i \in 1..16 : g[i] = 0

DigitChar(d) == <<"0", "1", "2", "3", "4", "5", "6", "7", "8", "9">>[d + 1]

\* The digits make_part_name collects in tmp: least significant first, at
\* most three.
RECURSIVE TmpDigits(_, _)
TmpDigits(n, tlen) ==
    IF n > 0 /\ tlen < 3
    THEN <<DigitChar(n % 10)>> \o TmpDigits(n \div 10, tlen + 1)
    ELSE <<>>

Reverse(s) == [i \in 1..Len(s) |-> s[Len(s) + 1 - i]]

\* The first n characters of s (name_buf holds 23 and the terminator).
Truncate(s, n) == IF Len(s) <= n THEN s ELSE SubSeq(s, 1, n)

\* make_part_name
make_part_name(parent_name, part_number_one_based) ==
    LET n == IF part_number_one_based = 0 THEN 1
             ELSE part_number_one_based
    IN  Truncate(Truncate(parent_name, 23) \o <<"p">>
                    \o Reverse(TmpDigits(n, 0)), 23)

\* register_partition on the state st of the partition table
\* (g_part_count, g_parts, g_part_table).
register_partition(st, start, count, is_gpt, mbr_type, type_guid) ==
    IF st.g_part_count >= MAX_PARTITIONS THEN st
    ELSE IF count = 0 THEN st
    ELSE LET idx == st.g_part_count
         IN  [st EXCEPT
                !.g_part_count = idx + 1,
                !.g_parts[idx] =
                    [parent |-> "g_boot", lba_start |-> start,
                     lba_count |-> count, mbr_type |-> mbr_type,
                     is_gpt |-> is_gpt,
                     gpt_type_guid |-> IF is_gpt THEN type_guid
                                       ELSE ZeroGuid,
                     name |-> make_part_name(g_boot.name, idx + 1),
                     sector_size |-> g_boot.sector_size,
                     total_sectors |-> count]]

\* The loop of probe_mbr_partitions over the four entries, from entry i.
RECURSIVE probe_mbr_loop(_, _, _, _)
probe_mbr_loop(st, pe, i, added) ==
    IF ~(i <= 4 /\ st.g_part_count < MAX_PARTITIONS)
    THEN [st |-> st, added |-> added]
    ELSE LET type == pe[i].type
             start == pe[i].lba_start
             count == pe[i].lba_count
         IN  IF type = 0 \/ count = 0
             THEN probe_mbr_loop(st, pe, i + 1, added)
             ELSE IF type = 238
             THEN probe_mbr_loop(st, pe, i + 1, added)
             ELSE probe_mbr_loop(
                      register_partition(st, start, count, FALSE, type,
                                         ZeroGuid),
                      pe, i + 1, added + 1)

\* A variant that does not look at the signature.
probe_mbr_partitions_without_signature(st, lba0) ==
    probe_mbr_loop(st, lba0.pe, 1, 0)

\* probe_mbr_partitions: the number of partitions added.
probe_mbr_partitions(st, lba0) ==
    IF ~(lba0.sig = <<85, 170>>) THEN [st |-> st, added |-> 0]
    ELSE probe_mbr_loop(st, lba0.pe, 1, 0)

\* The loop of probe_gpt_partitions over the entry array, from entry i.
RECURSIVE probe_gpt_loop(_, _, _, _)
probe_gpt_loop(st, ent, i, nentries) ==
    IF ~(i <= nentries /\ st.g_part_count < MAX_PARTITIONS) THEN st
    ELSE LET skipped(ge) ==
                 \/ guid_is_zero(ge.type_guid)
                 \/ ge.first_lba = 0 /\ ge.last_lba = 0
                 \/ ge.last_lba < ge.first_lba
             \* the entries from i on that the loop does not pass over
             rest == {k \in i..nentries : ~skipped(ent[k])}
         IN  IF rest = {} THEN st
             ELSE LET k == CHOOSE x \in rest : \A y \in rest : x <= y
                      ge == ent[k]
                      start == ge.first_lba
                      count == ((ge.last_lba - ge.first_lba) + 1) % LbaMod
                  IN  probe_gpt_loop(
                          register_partition(st, start, count, TRUE, 0,
                                             ge.type_guid),
                          ent, k + 1, nentries)

\* "EFI PART"
GptSignature == <<69, 70, 73, 32, 80, 65, 82, 84>>

\* probe_gpt_partitions on the header gh read from LBA 1 and the entry
\* array ent read from part_entry_lba: has_gpt, the partition table, the
\* free frames (the frame of the header is not given back) and the LBAs it
\* has read, in order (2 stands for part_entry_lba).
probe_gpt_partitions(st, free, gh, ent) ==
    LET a == pmm_alloc(free)
        total_bytes == gh.part_entry_size * gh.num_part_entries
        sectors_needed == (total_bytes + 511) \div 512
        pages == (sectors_needed * 512 + PAGE_SIZE - 1) \div PAGE_SIZE
        a2 == pmm_alloc_pages(a.free, pages)
        no == [has_gpt |-> FALSE, st |-> st, free |-> a.free,
               reads |-> <<1>>]
    IN  IF g_boot.sector_size # 512
        THEN [no EXCEPT !.free = free, !.reads = <<>>]
        ELSE IF a.addr = {} THEN [no EXCEPT !.free = free, !.reads = <<>>]
        ELSE IF gh.signature # GptSignature THEN no
        ELSE IF gh.header_size < 92 \/ gh.header_size > 512 THEN no
        ELSE IF gh.part_entry_size < 128 \/ gh.part_entry_size > 1024
        THEN no
        ELSE IF gh.num_part_entries = 0 \/ gh.num_part_entries > 4096
        THEN no
        ELSE IF sectors_needed = 0 THEN no
        ELSE IF sectors_needed > 1024 THEN no
        ELSE IF a2.addr = {} THEN no
        ELSE [has_gpt |-> TRUE,
              st |-> probe_gpt_loop(st, ent, 1, gh.num_part_entries),
              free |-> a.free,
              reads |-> <<1, 2>>]

\* The partition table before block_init.
NoTable ==
    [g_part_count |-> 0, g_part_table |-> "PART_TABLE_NONE",
     g_parts |-> [i \in 0..(MAX_PARTITIONS - 1) |-> NoPart]]

\* block_init on a disk whose sectors are img (LBA 0, the GPT header and
\* the entry array); the parent answers the reads of the LBAs outside
\* img.bad. LBA 0 is read first, into a frame that is not given back.
block_init(ready, free, img) ==
    LET a0 == pmm_alloc(free)
        g == probe_gpt_partitions(NoTable, a0.free, img.gh, img.ent)
        m == probe_mbr_partitions(g.st, img.lba0)
    IN  IF ~ready
        THEN [g_ready |-> FALSE, st |-> NoTable, free |-> free,
              reads |-> <<>>]
        ELSE IF a0.addr = {}
        THEN [g_ready |-> TRUE, st |-> NoTable, free |-> free,
              reads |-> <<>>]
        ELSE IF 0 \in img.bad
        THEN [g_ready |-> TRUE, st |-> NoTable, free |-> a0.free,
              reads |-> <<0>>]
        ELSE IF g.has_gpt
        THEN [g_ready |-> TRUE,
              st |-> [g.st EXCEPT !.g_part_table = "PART_TABLE_GPT"],
              free |-> g.free,
              reads |-> <<0>> \o g.reads]
        ELSE [g_ready |-> TRUE,
              st |-> [m.st EXCEPT !.g_part_table =
                         IF m.added > 0 THEN "PART_TABLE_MBR"
                         ELSE "PART_TABLE_NONE"],
              free |-> g.free,
              reads |-> <<0>> \o g.reads]

\* A variant of the range check that adds lba and count first.
part_rw_adds_first(p, lba, count) ==
    IF p.parent = "NULL" THEN [ret |-> FALSE, called |-> FALSE, lba |-> 0]
    ELSE IF count = 0 THEN [ret |-> FALSE, called |-> FALSE, lba |-> 0]
    ELSE IF p.lba_count # 0 /\ (lba + count) % LbaMod > p.lba_count
    THEN [ret |-> FALSE, called |-> FALSE, lba |-> 0]
    ELSE [ret |-> TRUE, called |-> TRUE,
          lba |-> (p.lba_start + lba) % LbaMod]

\* part_read / part_write on the partition p: whether the parent is called,
\* and the LBA it is called with; the parent's answer is the result.
part_rw(p, lba, count) ==
    IF p.parent = "NULL" THEN [ret |-> FALSE, called |-> FALSE, lba |-> 0]
    ELSE IF count = 0 THEN [ret |-> FALSE, called |-> FALSE, lba |-> 0]
    ELSE IF p.lba_count # 0 /\ lba >= p.lba_count
    THEN [ret |-> FALSE, called |-> FALSE, lba |-> 0]
    ELSE IF p.lba_count # 0 /\ count > (p.lba_count - lba)
    THEN [ret |-> FALSE, called |-> FALSE, lba |-> 0]
    ELSE [ret |-> TRUE, called |-> TRUE,
          lba |-> (p.lba_start + lba) % LbaMod]

\* ---- the disks block_init is run on ----

Guid1 == [i \in 1..16 |-> i]
\* A GUID whose last byte alone is not 0.
Guid2 == [i \in 1..16 |-> IF i = 16 THEN 1 ELSE 0]

GptEntry(type_guid, first_lba, last_lba) ==
    [type_guid |-> type_guid, first_lba |-> first_lba,
     last_lba |-> last_lba]

\* Entries: three of the example (2048..4095, 4096..6143, 6144..10239), one
\* sector, unused, first and last 0, last before first, the whole range of
\* LBAs.
GptEntryInputs ==
    {GptEntry(Guid1, 2048, 4095), GptEntry(Guid2, 4096, 6143),
     GptEntry(Guid1, 6144, 10239), GptEntry(Guid1, 7, 7),
     GptEntry(ZeroGuid, 34, 100), GptEntry(Guid1, 0, 0),
     GptEntry(Guid1, 100, 50), GptEntry(Guid1, 0, LbaMod - 1)}

\* Entry arrays: every array of up to two entries, the example, and long
\* arrays of one-sector partitions with one other entry among them.
GptArrayInputs ==
    UNION {[1..n -> GptEntryInputs] : n \in 0..2}
    \cup {<<GptEntry(Guid1, 2048, 4095), GptEntry(Guid2, 4096, 6143),
            GptEntry(Guid1, 6144, 10239)>>}
    \cup {[i \in 1..MaxEntries |->
              IF i = j THEN e ELSE GptEntry(Guid1, 7, 7)] :
          j \in {1, MAX_PARTITIONS, MAX_PARTITIONS + 1},
          e \in GptEntryInputs}

GptHeader(signature, header_size, part_entry_size, num_part_entries) ==
    [signature |-> signature, header_size |-> header_size,
     part_entry_size |-> part_entry_size,
     num_part_entries |-> num_part_entries]

\* LBA 1 of a disk without GPT: zeroes, a wrong signature, sizes out of
\* range.
BadHeaderInputs ==
    {GptHeader(<<0, 0, 0, 0, 0, 0, 0, 0>>, 0, 0, 0),
     GptHeader(<<69, 70, 73, 32, 80, 65, 82, 0>>, 92, 128, 1),
     GptHeader(GptSignature, 91, 128, 1),
     GptHeader(GptSignature, 92, 127, 1),
     GptHeader(GptSignature, 92, 128, 0)}

MbrEntry(type, lba_start, lba_count) ==
    [type |-> type, lba_start |-> lba_start, lba_count |-> lba_count]

\* MBR entries: unused, Linux (0x83), protective (0xEE), no sectors, type 0
\* with sectors.
MbrEntryInputs ==
    {MbrEntry(0, 0, 0), MbrEntry(131, 2048, 4096), MbrEntry(238, 1, 20000),
     MbrEntry(12, 63, 0), MbrEntry(0, 5, 10)}

Lba0(sig, pe) == [sig |-> sig, pe |-> pe]

\* The protective MBR of a GPT disk.
ProtectiveMbr ==
    Lba0(<<85, 170>>, <<MbrEntry(238, 1, 20000), MbrEntry(0, 0, 0),
                        MbrEntry(0, 0, 0), MbrEntry(0, 0, 0)>>)

\* Entry arrays of n entries whose first entry is a partition and whose
\* other entries are unused.
SparseArray(n) ==
    [i \in 1..n |-> IF i = 1 THEN GptEntry(Guid1, 2048, 4095)
                    ELSE GptEntry(ZeroGuid, 0, 0)]

\* GPT headers at the limits of the accepted sizes: the largest header,
\* header_size, part_entry_size and num_part_entries one past their
\* limits, and entry arrays of 1024-byte entries that take 512, 514 and
\* 1026 sectors.
LimitHeaderInputs ==
    {GptHeader(GptSignature, 512, 128, 1),
     GptHeader(GptSignature, 513, 128, 1),
     GptHeader(GptSignature, 92, 1025, 1),
     GptHeader(GptSignature, 92, 128, 4097),
     GptHeader(GptSignature, 92, 1024, 256),
     GptHeader(GptSignature, 92, 1024, 257),
     GptHeader(GptSignature, 92, 1024, 513)}

\* A disk: LBA 0, the GPT header at LBA 1, the entry array, and the LBAs
\* whose read fails.
DiskInputs ==
    {[lba0 |-> ProtectiveMbr,
      gh |-> GptHeader(GptSignature, 92, 128, Len(ent)), ent |-> ent,
      bad |-> {}] :
        ent \in GptArrayInputs \ {<<>>}}
    \cup {[lba0 |-> ProtectiveMbr, gh |-> gh,
           ent |-> SparseArray(gh.num_part_entries), bad |-> {}] :
            gh \in LimitHeaderInputs}
    \cup {[lba0 |-> ProtectiveMbr,
           gh |-> GptHeader(GptSignature, 92, 128, 3),
           ent |-> <<GptEntry(Guid1, 2048, 4095), GptEntry(Guid2, 4096, 6143),
                     GptEntry(Guid1, 6144, 10239)>>,
           bad |-> {0}]}
    \cup {[lba0 |-> Lba0(<<85, 170>>, pe), gh |-> gh, ent |-> <<>>,
           bad |-> {}] :
            pe \in [1..4 -> MbrEntryInputs],
            gh \in {GptHeader(<<0, 0, 0, 0, 0, 0, 0, 0>>, 0, 0, 0)}}
    \cup {[lba0 |-> Lba0(sig, pe), gh |-> gh, ent |-> <<>>, bad |-> {}] :
            sig \in {<<85, 170>>, <<0, 0>>, <<85, 0>>},
            pe \in {ProtectiveMbr.pe,
                    <<MbrEntry(131, 2048, 4096), MbrEntry(238, 1, 20000),
                      MbrEntry(12, 63, 0), MbrEntry(131, 8192, 1)>>},
            gh \in BadHeaderInputs}

NoDisk ==
    [lba0 |-> Lba0(<<0, 0>>, [i \in 1..4 |-> MbrEntry(0, 0, 0)]),
     gh |-> GptHeader(<<0, 0, 0, 0, 0, 0, 0, 0>>, 0, 0, 0), ent |-> <<>>,
     bad |-> {}]

NoBop ==
    [op |-> "none", index |-> 0, lba |-> 0, count |-> 0, ret |-> FALSE,
     called |-> FALSE, parent_lba |-> 0]

\* The block layer before block_init.
BlockInit ==
    /\ g_ready = FALSE
    /\ g_part = NoTable
    /\ bdisk = NoDisk
    /\ bop = NoBop

\* The frames free when block_init runs, at boot: room for the largest
\* entry array probe_gpt_partitions accepts (128 pages).
BootFrames == NFrames + 130
BootPool == 1..BootFrames

\* block_init, once, on the disk img.
BlockInitCall(img) ==
    /\ bop.op = "none"
    /\ LET r == block_init(g_disk.ready, BootPool, img)
       IN  /\ g_ready' = r.g_ready
           /\ g_part' = r.st
           /\ pmm_free' = r.free
    /\ bdisk' = img
    /\ bop' = [NoBop EXCEPT !.op = "init"]

\* The LBAs and counts the partitions are read and written with.
PartLbaInputs == {0, 2047, 2048, LbaMod - 1}
PartCountInputs == {0, 1, 2, 2048}

\* block_partition_device(index)->read or ->write.
PartRw(op, index, lba, count) ==
    /\ bop.op # "none"
    /\ index < g_part.g_part_count
    /\ LET r == part_rw(g_part.g_parts[index], lba, count)
       IN  bop' = [op |-> op, index |-> index, lba |-> lba, count |-> count,
                   ret |-> r.ret, called |-> r.called,
                   parent_lba |-> r.lba]
    /\ UNCHANGED <<g_ready, g_part, bdisk, pmm_free>>

\* do_diskread: the sanity cap on the bytes of one request, 512 KiB.
MAX_BYTES == 524288

\* The shell command "diskreadp <part> <lba> [count]" (a count of 0 is taken
\* as 1): get_part, then do_diskread, which allocates pages (alloc_ok: the
\* allocation succeeds), calls the partition device's read on them and frees
\* them. No function of the block cache is called.
CmdDiskreadp(index, lba, count0, alloc_ok) ==
    LET count == IF count0 = 0 THEN 1 ELSE count0
        miss == [op |-> "diskreadp", index |-> index, lba |-> lba,
                 count |-> count, ret |-> FALSE, called |-> FALSE,
                 parent_lba |-> 0]
    IN
    /\ bop.op # "none"
    /\ bop' = IF index >= g_part.g_part_count THEN miss
              ELSE IF count * SECTOR_SIZE > MAX_BYTES THEN miss
              ELSE IF ~alloc_ok THEN miss
              ELSE LET r == part_rw(g_part.g_parts[index], lba, count)
                   IN  [miss EXCEPT !.ret = r.ret, !.called = r.called,
                                    !.parent_lba = r.lba]
    /\ UNCHANGED <<g_ready, g_part, bdisk, pmm_free>>

DiskreadpCountInputs == {0, 8, 2048}

BlockNext ==
    \/ /\ \E img \in DiskInputs : BlockInitCall(img)
       /\ UNCHANGED <<cacheVars, schedVars, ahciVars, mem, page_tables, vop, cpu, pic, kboot>>
    \/ /\ \E op \in {"read", "write"}, index \in {0, 1},
             lba \in PartLbaInputs, count \in PartCountInputs :
             PartRw(op, index, lba, count)
       /\ UNCHANGED <<cacheVars, schedVars, ahciVars, vmmVars, cpu, pic, kboot>>
    \/ /\ \E index \in {0, 1}, lba \in {0, 2048},
             count \in DiskreadpCountInputs, alloc_ok \in BOOLEAN :
             CmdDiskreadp(index, lba, count, alloc_ok)
       /\ UNCHANGED <<cacheVars, schedVars, ahciVars, vmmVars, cpu, pic, kboot>>

(***************************************************************************)
(*                   arch/x86/idt.c: the panic path                        *)
(***************************************************************************)

IDT_ENTRIES == 256
\* type_attr of every gate idt_set_gate installs: 0x8E.
GATE_TYPE_ATTR == 142

exception_messages ==
    <<"Division By Zero", "Debug", "Non Maskable Interrupt", "Breakpoint",
      "Overflow", "Bound Range Exceeded", "Invalid Opcode",
      "Device Not Available", "Double Fault",
      "Coprocessor Segment Overrun", "Invalid TSS", "Segment Not Present",
      "Stack-Segment Fault", "General Protection Fault", "Page Fault",
      "Reserved", "x87 Floating-Point Exception", "Alignment Check",
      "Machine Check", "SIMD Floating-Point Exception",
      "Virtualization Exception", "Control Protection Exception",
      "Reserved", "Reserved", "Reserved", "Reserved", "Reserved", "Reserved",
      "Hypervisor Injection Exception", "VMM Communication Exception",
      "Security Exception", "Reserved">>

\* The CPU after kmain has enabled interrupts: running thread code; no
\* exception raised, nothing reported.
NoPanic ==
    [IF |-> TRUE, at |-> "thread", raised |-> IDT_ENTRIES,
     int_no |-> IDT_ENTRIES, number |-> IDT_ENTRIES, message |-> ""]

CpuInit == cpu = NoPanic

\* The vector whose handler the CPU enters when vector v is raised: v when
\* init_idt has set its gate; a descriptor left zero by the memset is no
\* interrupt or trap gate, and the CPU raises #GP (13) instead.
Dispatch(v) == IF idt_gate(v) = "exception" THEN v ELSE 13

\* An interrupt gate (type 0xE) clears IF on entry, a trap gate (0xF) does
\* not.
GateClearsIF(type_attr) == type_attr % 16 = 14

\* exception_N and exception_handler_common: push N as int_no, push the
\* registers, call kernel_panic(frame).
exception_entry(c, v) ==
    [c EXCEPT !.IF = IF GateClearsIF(GATE_TYPE_ATTR) THEN FALSE ELSE c.IF,
              !.at = "kernel_panic",
              !.raised = v,
              !.int_no = Dispatch(v),
              !.number = IDT_ENTRIES,
              !.message = ""]

\* panic_halt_forever: cli, then hlt for ever.
panic_halt_forever(c) == [c EXCEPT !.IF = FALSE, !.at = "halt"]

\* kernel_panic(frame): prints the name and the number of frame->int_no,
\* the error code and the registers, then panic_halt_forever().
kernel_panic(c) ==
    panic_halt_forever(
        [c EXCEPT !.message = IF c.int_no < 32
                              THEN exception_messages[c.int_no + 1]
                              ELSE "Unknown Exception",
                  !.number = c.int_no])

\* The vectors of the CPU exceptions.
ExceptionVectors == 0..31

\* The code of the running thread raises exception v; an NMI (vector 2) is
\* also taken while the CPU is halted with interrupts disabled.
RaiseException(v) ==
    /\ cpu.at = "thread" \/ v = 2
    /\ cpu' = exception_entry(cpu, v)
    /\ UNCHANGED schedVars

\* kernel_panic runs to its hlt loop.
KernelPanic ==
    /\ cpu.at = "kernel_panic"
    /\ cpu' = kernel_panic(cpu)
    /\ UNCHANGED schedVars

\* ---- interrupt vectors 32..47 and the end-of-interrupt ----

\* I/O ports of the interrupt controllers' command registers.
PIC1_COMMAND == 32
PIC2_COMMAND == 160
\* The EOI command.
PIC_EOI == 32

\* No interrupt delivered yet: nothing written to the controllers.
NoIrq == [vector |-> IDT_ENTRIES, writes |-> <<>>, returned |-> FALSE]

PicInit == pic = NoIrq

\* irq0_handler: the port writes between saving and restoring the
\* registers ("mov $0x20, %al; mov $0x20, %dx; out %al, (%dx)").
irq0_handler_eoi == <<[port |-> PIC1_COMMAND, value |-> PIC_EOI]>>

\* irq_hda_handler: after hda_interrupt_handler, 0x20 to the slave and then
\* to the master, whatever the vector. init_idt sets no gate to it.
irq_hda_handler_eoi ==
    <<[port |-> PIC2_COMMAND, value |-> PIC_EOI],
      [port |-> PIC1_COMMAND, value |-> PIC_EOI]>>

\* interrupts_apic_enabled: no code of main.c or idt.c enables the local
\* APIC, the kernel stays on the PIC.
interrupts_apic_enabled == FALSE

\* Offset of the EOI register of the local APIC.
LAPIC_EOI == 176

\* The vectors of IRQ 0..15 after the PIC remap.
IrqVectors == 32..47

\* Interrupt vector v is delivered while IF is set: the handler at its gate
\* runs and returns with iretq; a vector without a gate makes the CPU raise
\* #GP (13), which enters the panic path.
InterruptDeliver(v) ==
    /\ cpu.IF
    /\ IF idt_gate(v) = "irq0_handler"
       THEN /\ Irq0Deliver
            /\ pic' = [vector |-> v, writes |-> irq0_handler_eoi,
                       returned |-> TRUE]
            /\ UNCHANGED cpu
       ELSE /\ cpu' = exception_entry(cpu, 13)
            /\ pic' = [vector |-> v, writes |-> <<>>, returned |-> FALSE]
            /\ UNCHANGED schedVars

\* The steps of the system with the panic path: thread code runs while the
\* CPU is not in the panic path, IRQ0 is delivered while IF is set.
PanicNext ==
    \/ /\ cpu.at = "thread"
       /\ \E ok \in BOOLEAN : SchedulerCreate(ok)
       /\ UNCHANGED <<cacheVars, vmmVars, ahciVars, blockVars, cpu, pic, kboot>>
    \/ /\ cpu.at = "thread"
       /\ SchedulerYield
       /\ UNCHANGED <<cacheVars, vmmVars, ahciVars, blockVars, cpu, pic, kboot>>
    \/ /\ cpu.at = "thread"
       /\ ThreadExit
       /\ UNCHANGED <<cacheVars, vmmVars, ahciVars, blockVars, cpu, pic, kboot>>
    \/ /\ \E v \in IrqVectors : InterruptDeliver(v)
       /\ UNCHANGED <<cacheVars, vmmVars, ahciVars, blockVars, kboot>>
    \/ /\ \E v \in ExceptionVectors : RaiseException(v)
       /\ UNCHANGED <<cacheVars, vmmVars, ahciVars, blockVars, pic, kboot>>
    \/ /\ KernelPanic
       /\ UNCHANGED <<cacheVars, vmmVars, ahciVars, blockVars, pic, kboot>>

(***************************************************************************)
(*                             core/main.c                                 *)
(***************************************************************************)

\* Timer interrupts taken while kmain runs.
MaxTicks == 3

\* The calls of kmain, in the order of its text.
KmainProgram ==
    <<"boot_limine_supported", "hhdm_set_offset", "console_init",
      "serial_init", "cli", "init_idt", "tss_init", "gdt_init",
      "x86_enable_sse", "pmm_init", "vmm_init", "heap_init", "init_pic",
      "sti", "pci_enumerate_and_log", "block_init", "bcache_init",
      "shell_loop">>

\* What the machine answers: ok is whether the call at hand finds what it
\* asks for (the boot protocol's base revision, the HHDM response, COM1,
\* the memory map), ahci is what the PCI scan finds: no AHCI controller, a
\* controller without a usable disk, a controller with a ready disk.
AhciFound == {"none", "not_ready", "ready"}
BootInputs == [ok : BOOLEAN, ahci : AhciFound]

\* kmain entered from the boot loader, interrupts disabled; nothing called.
BootInit ==
    kboot = [pc |-> 1, ints |-> FALSE, halted |-> FALSE, serial_ok |-> FALSE,
             ahci |-> "none", ticks |-> 0, done |-> <<>>]

\* One call of kmain with what it logs as done: boot_hcf halts the CPU when
\* the boot protocol is not supported, the HHDM offset is missing or there
\* is no memory map; pci_enumerate_and_log calls ahci_probe_mmio for an
\* AHCI controller; block_init probes the partitions of a ready disk.
kmain_step(k, in) ==
    LET ins == KmainProgram[k.pc]
        next == [k EXCEPT !.pc = k.pc + 1, !.done = Append(k.done, ins)]
        hcf == [k EXCEPT !.halted = TRUE]
    IN  CASE ins \in {"boot_limine_supported", "hhdm_set_offset", "pmm_init"}
               -> IF in.ok THEN next ELSE hcf
          [] ins = "serial_init" -> [next EXCEPT !.serial_ok = in.ok]
          [] ins = "cli" -> [next EXCEPT !.ints = FALSE]
          [] ins = "sti" -> [next EXCEPT !.ints = TRUE]
          [] ins = "pci_enumerate_and_log"
               -> [next EXCEPT
                     !.ahci = in.ahci,
                     !.done = IF in.ahci = "none" THEN next.done
                              ELSE Append(next.done, "ahci_probe_mmio")]
          [] ins = "block_init"
               -> [next EXCEPT
                     !.done = IF k.ahci = "ready"
                              THEN Append(next.done, "probe_partitions")
                              ELSE next.done]
          [] OTHER -> next

\* kmain makes its next call; shell_loop does not return.
KmainStep(in) ==
    /\ ~kboot.halted
    /\ kboot.pc <= Len(KmainProgram)
    /\ kboot' = kmain_step(kboot, in)

\* IRQ 0 is taken once init_pic has unmasked it and IF is set.
BootTimerTick ==
    /\ ~kboot.halted
    /\ kboot.ints
    /\ \E k \in 1..Len(kboot.done) : kboot.done[k] = "init_pic"
    /\ kboot.ticks < MaxTicks
    /\ kboot' = [kboot EXCEPT !.ticks = kboot.ticks + 1]

BootNext ==
    \/ /\ \E in \in BootInputs : KmainStep(in)
       /\ UNCHANGED <<cacheVars, schedVars, vmmVars, ahciVars, blockVars, cpu,
                      pic>>
    \/ /\ BootTimerTick
       /\ UNCHANGED <<cacheVars, schedVars, vmmVars, ahciVars, blockVars, cpu,
                      pic>>

(***************************************************************************)
(*                            Specifications                               *)
(***************************************************************************)

\* The state after bcache_init, scheduler_init and vmm_init.
Init ==
    /\ CacheInit /\ SchedInit /\ VmmInit /\ AhciInit /\ BlockInit /\ CpuInit
    /\ PicInit /\ BootInit

SpecCache == Init /\ [][CacheNext]_vars

SpecStats == Init /\ [][StatsNext]_vars

SpecSched == Init /\ [][SchedNext]_vars

SpecYield == Init /\ [][YieldNext]_vars

SpecVmm == Init /\ [][VmmNext]_vars
SpecVmmKernel == Init /\ [][VmmKernelNext]_vars

SpecAhci == Init /\ [][AhciNext]_vars

SpecAhciProbe == Init /\ [][AhciProbeNext]_vars

SpecAhciXfer == Init /\ [][AhciXferNext]_vars

SpecBlock == Init /\ [][BlockNext]_vars

SpecPanic == Init /\ [][PanicNext]_vars

SpecBoot == Init /\ [][BootNext]_vars

\* The positions of the driver in a call.
AhciPcs == {"idle", "wait_not_busy", "latch", "complete"}

\* The CPU keeps executing the driver: a step that moves the driver on in
\* the call it is in (the steps PortWaitNotBusy, PortIssueLatch and
\* PortIssueWait, which all change a_pc or a_i).
AhciAdvance ==
    /\ a_pc # "idle"
    /\ a_pc' \in AhciPcs
    /\ a_i' \in 0..(PollBusyLimit + PollLatchLimit + PollDoneLimit)

SpecAhciLive == Init /\ [][AhciNext]_vars /\ WF_<<a_pc, a_i>>(AhciAdvance)

(***************************************************************************)
(*                       Properties of the scheduler                       *)
(***************************************************************************)

Running == {t \in Slots : threads[t].state = "running"}

\* C5: at most one thread slot is in state running.
C5_AtMostOneRunning == Cardinality(Running) <= 1

\* C5 witness: a scheduler_yield has switched to a created thread, which is
\* the running one, the thread that yielded being ready again.
C5_Witness ==
    /\ sop.op = "yield"
    /\ current_thread # 0
    /\ Running = {current_thread}
    /\ threads[sop.who].state = "ready"

\* The first ready slot after slot c in cyclic order (c itself comes last).
FirstReadyAfter(c) ==
    LET offs == {i \in 1..MAX_THREADS :
                    threads[(c + i) % MAX_THREADS].state = "ready"}
    IN  IF offs = {} THEN c
        ELSE (c + CHOOSE i \in offs : \A j \in offs : i <= j) % MAX_THREADS

\* The threads that can get the CPU.
Runnable == {t \in Slots : threads[t].state \in {"ready", "running"}}

\* C6: every scheduler_yield hands the CPU to the first ready slot after the
\* current slot id, modulo the table size (to the caller when no slot is
\* ready); and while no thread is created or exits, between two consecutive
\* runs of one thread every other runnable thread runs exactly once, and no
\* dead or unused slot runs.
C6_RoundRobin ==
    /\ [][SchedulerYield =>
            current_thread' = FirstReadyAfter(current_thread)]_vars
    /\ [](\A i, j \in 1..Len(order) :
            (/\ i < j
             /\ order[i] = order[j]
             /\ \A k \in (i + 1)..(j - 1) : order[k] # order[i])
            => /\ \A k \in (i + 1)..(j - 1) : order[k] \in Runnable
               /\ \A u \in Runnable \ {order[i]} :
                     Cardinality({k \in (i + 1)..(j - 1) : order[k] = u}) = 1)

\* C6 witness: after thread 2 has exited, threads 0 and 1 have taken turns,
\* the yield of thread 1 wrapping around the table past the dead slot 2 and
\* the unused slots.
C6_Witness ==
    /\ sop.op = "yield"
    /\ thread_count = 3
    /\ threads[2].state = "dead"
    /\ order = <<2, 0, 1, 0>>

\* C7: a thread that has marked itself dead is given up by its own
\* scheduler_yield and selected by no later one, whatever the reschedule
\* flag: the slot stays dead until scheduler_create takes it, and control
\* never comes back into the trampoline (no thread reaches the hlt loop).
C7_DeadNeverSelected ==
    [][ /\ \A t \in Slots :
             threads[t].state = "dead" =>
               /\ SchedulerYield => current_thread' # t
               /\ threads'[t].state # "dead" =>
                     /\ \E ok \in BOOLEAN : SchedulerCreate(ok)
                     /\ allocate_thread_slot(threads) = t
        /\ \A t \in Slots : threads'[t].at # "halt"
      ]_vars

\* C7 witness: a yield taken with the reschedule flag set has passed over a
\* dead thread that is suspended in its trampoline.
C7_Witness ==
    /\ sop.op = "yield" /\ sop.req = 1
    /\ \E t \in Slots : /\ threads[t].state = "dead"
                        /\ threads[t].at = "exit"
                        /\ threads[t].context = "saved"
                        /\ t # sop.who

\* C8: scheduler_on_tick sets reschedule_requested and changes neither
\* current_thread nor any thread's state, saved context or code position;
\* current_thread changes only in a scheduler_yield step.
C8_TickOnlySetsFlag ==
    [][ /\ SchedulerOnTick =>
             /\ reschedule_requested' = 1
             /\ UNCHANGED <<threads, current_thread, thread_count>>
        /\ current_thread' # current_thread => SchedulerYield
      ]_vars

\* C8 witness: a tick has set the flag while a created thread is running
\* and another thread is ready.
C8_Witness ==
    /\ sop.op = "tick" /\ sop.req = 0
    /\ reschedule_requested = 1
    /\ current_thread # 0
    /\ threads[0].state = "ready"

\* C9 (as claimed): every delivery of the timer interrupt IRQ0 through
\* vector 32 sets reschedule_requested, and the flag, once set, stays set
\* until a scheduler_yield clears it.
C9_Irq0SetsFlag ==
    [][ /\ Irq0Deliver => reschedule_requested' = 1
        /\ (reschedule_requested = 1 /\ reschedule_requested' # 1)
              => SchedulerYield
      ]_vars


(***************************************************************************)
(*                     Properties of the block cache                       *)
(***************************************************************************)

Key(buf) == <<buf.dev, buf.block_no>>

AllPinned == \A b \in Bufs : g_bufs[b].refcnt > 0

\* C1: a buffer with refcount > 0 is never the eviction victim. Across every
\* step a pinned buffer keeps its (device, block_no) key and stays valid, and
\* its data change only by a store of a holder; a bcache_get that misses while
\* every buffer is pinned returns NULL and leaves the cache as it was.
C1_PinnedNeverEvicted ==
    [][ /\ \A b \in Bufs :
             g_bufs[b].refcnt > 0 =>
               /\ g_bufs[b].valid /\ g_bufs'[b].valid
               /\ Key(g_bufs'[b]) = Key(g_bufs[b])
               /\ \/ g_bufs'[b].data = g_bufs[b].data
                  \/ \E m \in Data : ClientWrite(b, m)
        /\ \A dev \in Devs : \A block_no \in BlocksOf(dev) :
             \A wres \in IoResults, rres \in IoResults :
               ( /\ AllPinned
                 /\ ht_lookup(g_ht, g_bufs, dev, block_no) = 0
                 /\ BcacheGet(dev, block_no, wres, rres) )
               => /\ cop'.op = "get" /\ cop'.res = "all_pinned"
                  /\ UNCHANGED <<g_bufs, g_ht, g_lru, disk>>
      ]_vars

\* C1 witness: a bcache_get has just failed because every buffer is pinned.
C1_Witness ==
    /\ cop.op = "get" /\ cop.res = "all_pinned"
    /\ AllPinned

\* C2: at most one buffer is valid for any (device, block_no) pair.
C2_OneBufferPerKey ==
    \A b1 \in Bufs : \A b2 \in Bufs :
        (b1 # b2 /\ g_bufs[b1].valid /\ g_bufs[b2].valid)
            => Key(g_bufs[b1]) # Key(g_bufs[b2])

\* C2 witness: two valid buffers share a hash chain (their keys collide) and
\* the one found second on the chain is pinned.
C2_Witness ==
    \E idx \in 0..(g_ht_cap - 1) :
        /\ Len(g_ht[idx]) = 2
        /\ g_bufs[g_ht[idx][1]].valid
        /\ g_bufs[g_ht[idx][2]].valid
        /\ g_bufs[g_ht[idx][2]].refcnt > 0

\* C3: a valid dirty buffer is re-keyed or invalidated only in a step that
\* leaves its bytes on its device; and when the write-back of the victim
\* chosen by bcache_get fails, the call returns NULL and the victim stays
\* valid, dirty, hashed under its old key and with its data.
C3_DirtyEvictionWritesBack ==
    [][ /\ \A b \in Bufs :
             ( /\ g_bufs[b].valid /\ g_bufs[b].dirty
               /\ \/ ~g_bufs'[b].valid
                  \/ Key(g_bufs'[b]) # Key(g_bufs[b]) )
             => disk'[g_bufs[b].dev][g_bufs[b].block_no] = g_bufs[b].data
        /\ \A dev \in Devs : \A block_no \in BlocksOf(dev) :
             \A rres \in IoResults :
               LET v == find_evictable(g_lru, g_bufs) IN
               ( /\ ht_lookup(g_ht, g_bufs, dev, block_no) = 0
                 /\ v # 0
                 /\ g_bufs[v].valid /\ g_bufs[v].dirty
                 /\ BcacheGet(dev, block_no, "fail", rres) )
               => /\ cop'.op = "get" /\ cop'.res = "wb_failed"
                  /\ g_bufs'[v] = g_bufs[v]
                  /\ ht_lookup(g_ht', g_bufs', g_bufs[v].dev,
                               g_bufs[v].block_no) = v
      ]_vars

\* C3 witness: the write-back of a valid dirty victim has just failed.
C3_Witness ==
    /\ cop.op = "get" /\ cop.res = "wb_failed"
    /\ \E b \in Bufs : /\ g_bufs[b].valid /\ g_bufs[b].dirty
                       /\ g_bufs[b].refcnt = 0
                       /\ find_evictable(g_lru, g_bufs) = b

\* C4: when bcache_sync_dev(d) has returned true, every block of d holds on
\* the device the bytes last stored for it through the cache (store,
\* mark_dirty, put), whatever calls ran in between, evictions included.
C4_SyncedBlocksOnDisk ==
    cop.op = "sync_dev" =>
        \A k \in BlocksOf(cop.dev) : disk[cop.dev][k] = want[cop.dev][k]

\* C4 witness: after a successful sync_dev(d) a block of d holds bytes that
\* were stored through a buffer which has since been evicted.
C4_Witness ==
    /\ cop.op = "sync_dev"
    /\ \E k \in BlocksOf(cop.dev) :
          /\ want[cop.dev][k] = "B"
          /\ \A b \in Bufs : ~(g_bufs[b].valid /\ g_bufs[b].dev = cop.dev
                               /\ g_bufs[b].block_no = k)


(***************************************************************************)
(*                        Properties of the VMM                            *)
(***************************************************************************)

\* C10 (as claimed): for any page table, virt, phys and flags, after
\* vmm_map_page has returned true vmm_get_physical gives phys & ~0xFFF, and
\* after vmm_unmap_page it gives 0.
C10_MapThenGetPhysical_AnyArgs ==
    /\ (vop.op = "map" /\ vop.ret) =>
          vmm_get_physical(mem, vop.pt, vop.virt) = vop.phys \cap (12..63)
    /\ vop.op = "unmap" => vmm_get_physical(mem, vop.pt, vop.virt) = {}

\* C10: for any page table and virt, any phys below 2^52 and any flags with
\* no bit among bits 12..51, after vmm_map_page has returned true
\* vmm_get_physical gives phys & ~0xFFF; after vmm_unmap_page it gives 0.
C10_MapThenGetPhysical ==
    /\ (/\ vop.op = "map" /\ vop.ret
        /\ vop.phys \cap (52..63) = {}
        /\ vop.flags \cap (12..51) = {}) =>
          vmm_get_physical(mem, vop.pt, vop.virt) = vop.phys \cap (12..63)
    /\ vop.op = "unmap" => vmm_get_physical(mem, vop.pt, vop.virt) = {}

\* C10 witness: a page of a created page table has just been unmapped,
\* right after a vmm_map_page that returned true had mapped it to the
\* unaligned address 0x10010 with flags WRITE|USER|NX, and it resolves to 0.
C10_Witness ==
    /\ vop.op = "unmap"
    /\ vop.after_map
    /\ vop.pt \in page_tables
    /\ vop.phys = {16, 4}
    /\ vop.flags = PAGE_WRITE \cup PAGE_USER \cup {63}
    /\ vmm_get_physical(mem, vop.pt, vop.virt) = {}

\* virt is mapped in pt: every level of the walk is present, the leaf too.
Mapped(m, pt, virt) ==
    LET page_table == WalkToPt(m, pt, PAGE_ALIGN_DOWN(virt))
    IN  /\ page_table # {}
        /\ Load(m, page_table, PT_INDEX(PAGE_ALIGN_DOWN(virt)))
              \cap PAGE_PRESENT # {}

\* C11 (as claimed): in every state vmm_map_page calls reach,
\* vmm_get_physical(pt, virt) is 0 if and only if virt is not mapped in pt.
C11_ZeroIffUnmapped ==
    \A pt \in PtInputs : \A virt \in VirtInputs :
        (vmm_get_physical(mem, pt, virt) = {}) <=> ~Mapped(mem, pt, virt)

\* The places <<table, index>> of the intermediate entries (PML4, PDPT, PD)
\* on virt's path in pt, as far down as the levels above are present.
PathEntries(m, pt, virt0) ==
    LET virt == PAGE_ALIGN_DOWN(virt0)
        e4 == Load(m, pt.pml4_virt, PML4_INDEX(virt))
        pdpt == phys_to_virt(PTE_GET_ADDR(e4))
        e3 == Load(m, pdpt, PDPT_INDEX(virt))
        pd == phys_to_virt(PTE_GET_ADDR(e3))
    IN  IF pt = NullPt THEN {}
        ELSE {<<pt.pml4_virt, PML4_INDEX(virt)>>}
             \cup (IF e4 \cap PAGE_PRESENT = {} THEN {}
                   ELSE {<<pdpt, PDPT_INDEX(virt)>>}
                        \cup (IF e3 \cap PAGE_PRESENT = {} THEN {}
                              ELSE {<<pd, PD_INDEX(virt)>>}))

\* C12: after a vmm_map_page with USER that returned true, the PML4, PDPT
\* and PD entries on the page's path are present with USER; and no step
\* (vmm_map_page with or without USER, vmm_unmap_page,
\* vmm_create_page_table) clears USER on an intermediate entry that has it:
\* an entry that loses USER is on no page's path, it is a leaf entry.
C12_UserNeverDowngraded ==
    [][ /\ (vop'.op = "map" /\ vop'.ret /\ vop'.flags \cap PAGE_USER # {})
             => /\ Cardinality(PathEntries(mem', vop'.pt, vop'.virt)) = 3
                /\ \A k \in PathEntries(mem', vop'.pt, vop'.virt) :
                      PAGE_USER \cup PAGE_PRESENT \subseteq Load(mem', k[1], k[2])
        /\ \A k \in DOMAIN mem :
              (/\ PAGE_USER \subseteq mem[k]
               /\ ~(PAGE_USER \subseteq Load(mem', k[1], k[2])))
              => \A pt \in PtInputs : \A virt \in VirtInputs :
                    k \notin PathEntries(mem, pt, virt)
      ]_vars

\* C12 witness: a vmm_map_page without USER has returned true for the
\* higher-half page of the kernel page table, whose PML4 entry 256, present
\* without USER at boot, an earlier call with USER had upgraded; the three
\* intermediate entries still have USER.
C12_Witness ==
    /\ vop.op = "map" /\ vop.ret
    /\ vop.flags \cap PAGE_USER = {}
    /\ vop.pt = kernel_page_table
    /\ 47 \in vop.virt
    /\ Cardinality(PathEntries(mem, vop.pt, vop.virt)) = 3
    /\ \A k \in PathEntries(mem, vop.pt, vop.virt) :
          PAGE_USER \subseteq Load(mem, k[1], k[2])

\* The PDPT the PML4 entry of virt points to.
WalkPdpt(m, pt, virt) ==
    phys_to_virt(PTE_GET_ADDR(Load(m, pt.pml4_virt,
                                   PML4_INDEX(PAGE_ALIGN_DOWN(virt)))))

\* The frames the step has taken from the allocator.
Taken == {FrameAddr(f) : f \in pmm_free \ pmm_free'}

\* C13: a vmm_map_page succeeds with the allocator exhausted only if every
\* intermediate table of the page existed; a vmm_map_page that returns
\* false installs no leaf: vmm_get_physical of the page and of every other
\* page of every page table is as before the call, and every table the call
\* allocated is linked from a present entry and holds nothing but the link
\* to the next table the call allocated.
C13_OutOfFramesLeavesNoMapping ==
    [][ /\ (vop'.op = "map" /\ vop'.ret /\ pmm_free = {})
             => WalkToPt(mem, vop'.pt, PAGE_ALIGN_DOWN(vop'.virt)) # {}
        /\ (vop'.op = "map" /\ ~vop'.ret)
             => /\ \/ mem' = mem
                   \/ \A pt \in PtInputs : \A virt \in VirtInputs :
                         vmm_get_physical(mem', pt, virt)
                            = vmm_get_physical(mem, pt, virt)
                /\ \A t \in Taken :
                      /\ \E k \in DOMAIN mem' :
                            /\ PAGE_PRESENT \subseteq mem'[k]
                            /\ PTE_GET_ADDR(mem'[k]) = t
                      /\ \A k \in DOMAIN mem' :
                            k[1] = phys_to_virt(t)
                               => PTE_GET_ADDR(mem'[k]) \in Taken
      ]_vars

\* C13 witness: a vmm_map_page of page 0x400000 has returned false with the
\* allocator exhausted, after it had allocated the PDPT: the PML4 entry is
\* present, the PDPT it points to is empty and the page resolves to 0.
C13_Witness ==
    /\ vop.op = "map" /\ ~vop.ret
    /\ vop.pt # NullPt
    /\ vop.virt = {22, 3}
    /\ pmm_free = {}
    /\ Cardinality(PathEntries(mem, vop.pt, vop.virt)) = 2
    /\ \A k \in DOMAIN mem :
          k[1] # WalkPdpt(mem, vop.pt, vop.virt)
    /\ vmm_get_physical(mem, vop.pt, vop.virt) = {}

(***************************************************************************)
(*                      Properties of the AHCI driver                      *)
(***************************************************************************)

\* C14 (as claimed): a read that returns true, called right after a write
\* of the same sectors that returned true, leaves in the caller's buffer
\* the bytes that were written, on the direct PRDT path and on the
\* bounce-buffer path.
C14_WriteReadRoundTrip ==
    (aop.op = "read" /\ aop.ret /\ aop.after_write # 0)
        => aop.data = [i \in 1..aop.sector_count |->
                          Pat(aop.after_write, i - 1)]

\* A poll loop gives up: the step is the return of a call whose loop
\* counter has reached its limit (with PxCI still set, in the last loop).
TimedOut ==
    /\ a_pc' = "idle"
    /\ \/ a_pc = "wait_not_busy" /\ a_i >= PollBusyLimit
       \/ a_pc = "latch" /\ a_i >= PollLatchLimit
       \/ a_pc = "complete" /\ a_i >= PollDoneLimit
                            /\ port.PxCI \cap SlotMask # {}

\* C15: every call of ahci_read, ahci_write and ahci_flush returns,
\* whatever the device does: the counters of the poll loops stay within
\* their limits, a call whose loop gives up returns false, and the disk
\* stays ready.
C15_CallsTerminate ==
    /\ (a_pc # "idle") ~> (a_pc = "idle")
    /\ [](/\ a_pc = "wait_not_busy" => a_i <= PollBusyLimit
          /\ a_pc = "latch" => a_i <= PollLatchLimit
          /\ a_pc = "complete" => a_i <= PollDoneLimit
          /\ g_disk.ready)
    /\ [][TimedOut => ~aop'.ret /\ g_disk'.ready]_vars

\* A flush has returned false with its command still set in PxCI, and the
\* next call is in its first loop.
C15_Witness ==
    /\ aop.op = "flush"
    /\ ~aop.ret
    /\ port.PxCI = SlotMask
    /\ g_disk.ready
    /\ a_pc = "wait_not_busy"


\* C16: part_read and part_write call the parent, at lba_start + lba, exactly
\* when count >= 1 and lba + count <= lba_count (lba + count taken without
\* wrap-around); otherwise they return false without calling the parent, so
\* the parent is never accessed outside [lba_start, lba_start + lba_count).
C16_PartRwInRange ==
    bop.op \in {"read", "write"} =>
        LET p == g_part.g_parts[bop.index]
        IN  /\ bop.called <=>
                   (bop.count >= 1 /\ bop.lba + bop.count <= p.lba_count)
            /\ ~bop.called => ~bop.ret
            /\ bop.called =>
                   /\ bop.parent_lba = p.lba_start + bop.lba
                   /\ p.lba_start <= bop.parent_lba
                   /\ bop.parent_lba + bop.count
                          <= p.lba_start + p.lba_count

\* The last sector of a partition that starts at 2048 is written.
C16_Witness ==
    /\ bop.op = "write" /\ bop.called /\ bop.ret
    /\ bop.lba = 2047 /\ bop.count = 1 /\ bop.parent_lba = 4095
    /\ g_part.g_parts[bop.index].lba_count = 2048


\* LBA 1 holds a GPT header: the signature, and sizes in the accepted ranges.
ValidGptHeader(gh) ==
    /\ gh.signature = GptSignature
    /\ gh.header_size >= 92 /\ gh.header_size <= 512
    /\ gh.part_entry_size >= 128 /\ gh.part_entry_size <= 1024
    /\ gh.num_part_entries >= 1 /\ gh.num_part_entries <= 4096

\* An entry qualifies: its type GUID is not zero and last_lba >= first_lba.
Qualifies(ge) ==
    /\ \E i \in 1..16 : ge.type_guid[i] # 0
    /\ ge.last_lba >= ge.first_lba

\* n in decimal, most significant digit first.
RECURSIVE Decimal(_)
Decimal(n) ==
    IF n < 10 THEN <<DigitChar(n)>>
    ELSE Decimal(n \div 10) \o <<DigitChar(n % 10)>>

\* C17 (as claimed): on a disk whose LBA 1 holds a valid GPT header, the
\* registered partitions are the qualifying entries in entry-array order:
\* the k-th has start first_lba, count last_lba - first_lba + 1 and name
\* "<parent>p<k>", and block_partition_count is the number of qualifying
\* entries capped at MAX_PARTITIONS.
C17_GptPartitionsInOrder ==
    (bop.op # "none" /\ ValidGptHeader(bdisk.gh)) =>
        LET q == SelectSeq(bdisk.ent, Qualifies)
            n == IF Len(q) <= MAX_PARTITIONS THEN Len(q)
                 ELSE MAX_PARTITIONS
        IN  /\ g_part.g_part_count = n
            /\ \A k \in 1..n :
                   LET d == g_part.g_parts[k - 1]
                   IN  /\ d.lba_start = q[k].first_lba
                       /\ d.lba_count = q[k].last_lba - q[k].first_lba + 1
                       /\ d.name = g_boot.name \o <<"p">> \o Decimal(k)

\* The number of qualifying entries before entry i.
QualifyingBefore(ent, i) ==
    Cardinality({j \in 1..(i - 1) : Qualifies(ent[j])})

\* C18 (as claimed): GPT probing registers a partition {first_lba,
\* last_lba - first_lba + 1} for every entry whose type GUID is not zero and
\* whose last_lba >= first_lba, as long as fewer than MAX_PARTITIONS are
\* registered, and for no other entry.
C18_GptRegistersQualifying ==
    (bop.op # "none" /\ ValidGptHeader(bdisk.gh)) =>
        \A i \in 1..Len(bdisk.ent) :
            LET ge == bdisk.ent[i]
                before == QualifyingBefore(bdisk.ent, i)
            IN  IF Qualifies(ge) /\ before < MAX_PARTITIONS
                THEN /\ g_part.g_part_count > before
                     /\ g_part.g_parts[before].lba_start = ge.first_lba
                     /\ g_part.g_parts[before].lba_count
                            = ge.last_lba - ge.first_lba + 1
                     /\ g_part.g_parts[before].gpt_type_guid = ge.type_guid
                ELSE g_part.g_part_count
                        <= Cardinality({j \in 1..Len(bdisk.ent) : j # i
                                           /\ Qualifies(bdisk.ent[j])})


\* An MBR entry that is registered: type neither 0 nor 0xEE, count not 0.
MbrQualifies(e) == e.type # 0 /\ e.type # 238 /\ e.lba_count # 0

\* The table holds a protective 0xEE entry and no other entry.
OnlyProtective(pe) ==
    /\ \E i \in 1..4 : pe[i].type = 238
    /\ \A i \in 1..4 : pe[i].type \in {0, 238}

\* C19: on a disk without GPT whose LBA 0 ends in 0x55 0xAA, block_init
\* registers exactly the MBR entries whose type is neither 0 nor 0xEE and
\* whose count is not 0, in table order, with the entry's start and count; a
\* table with only a protective 0xEE entry, or a sector without the
\* signature, gives no partition and the table type none.
C19_MbrFallback ==
    (bop.op # "none" /\ ~ValidGptHeader(bdisk.gh)) =>
        LET pe == bdisk.lba0.pe
            q == SelectSeq(pe, MbrQualifies)
        IN  /\ bdisk.lba0.sig = <<85, 170>> =>
                   /\ g_part.g_part_count = Len(q)
                   /\ \A k \in 1..Len(q) :
                          /\ g_part.g_parts[k - 1].lba_start = q[k].lba_start
                          /\ g_part.g_parts[k - 1].lba_count = q[k].lba_count
                          /\ g_part.g_parts[k - 1].mbr_type = q[k].type
            /\ (bdisk.lba0.sig # <<85, 170>> \/ OnlyProtective(pe)) =>
                   /\ g_part.g_part_count = 0
                   /\ g_part.g_part_table = "PART_TABLE_NONE"

\* The first and the fourth entry of a table are registered, the protective
\* entry and the entry without sectors between them are not.
C19_Witness ==
    /\ bop.op = "init" /\ ~ValidGptHeader(bdisk.gh)
    /\ bdisk.gh.signature = GptSignature
    /\ bdisk.lba0.sig = <<85, 170>>
    /\ bdisk.lba0.pe[2].type = 238 /\ bdisk.lba0.pe[3].lba_count = 0
    /\ g_part.g_part_count = 2
    /\ g_part.g_parts[1].lba_start = 8192
    /\ g_part.g_part_table = "PART_TABLE_MBR"


\* Once the CPU is in the panic path it stays there with interrupts
\* disabled, and no thread is scheduled and no IRQ handler runs.
HaltedForever ==
    cpu.at # "thread" =>
        /\ cpu'.at # "thread"
        /\ ~cpu'.IF
        /\ UNCHANGED schedVars

\* C20 (as claimed): every exception vector 0..31 raised in any thread
\* enters the panic path, which reports that vector's number and name and
\* then halts for ever with interrupts disabled: after the entry no thread
\* is scheduled, no IRQ handler runs and control never returns.
C20_ExceptionsPanic ==
    /\ [](cpu.at = "halt" =>
             /\ cpu.number = cpu.raised
             /\ cpu.message = exception_messages[cpu.raised + 1])
    /\ [][HaltedForever]_vars


\* The end-of-interrupt of vector v: zero to the EOI register of the LAPIC
\* if it is enabled, otherwise 0x20 to the master PIC and, for v >= 40, to
\* the slave PIC as well.
EoiOf(v) ==
    IF interrupts_apic_enabled THEN {[port |-> LAPIC_EOI, value |-> 0]}
    ELSE {[port |-> PIC1_COMMAND, value |-> PIC_EOI]}
         \cup (IF v >= 40 THEN {[port |-> PIC2_COMMAND, value |-> PIC_EOI]}
                ELSE {})

\* C21 (as claimed): for every interrupt vector in [32, 48) the handler
\* returns and exactly one end-of-interrupt is sent: zero to the LAPIC EOI
\* register if the LAPIC is enabled, otherwise 0x20 to the master PIC and,
\* when the vector is >= 40, also to the slave PIC; vectors outside
\* [32, 48) send no EOI.
C21_OneEoiPerIrq ==
    /\ [](pic.vector \in IrqVectors =>
             /\ pic.returned
             /\ {pic.writes[i] : i \in 1..Len(pic.writes)} = EoiOf(pic.vector)
             /\ Len(pic.writes) = Cardinality(EoiOf(pic.vector)))
    /\ [][pic' # pic => pic'.vector \in IrqVectors]_vars


\* Position of buffer b in the order of the fetches, the last fetch first; a
\* buffer never fetched comes after every fetched one.
Rank(b) ==
    IF \E i \in 1..Len(fetched) : fetched[i] = b
    THEN CHOOSE i \in 1..Len(fetched) : fetched[i] = b
    ELSE Len(fetched) + 1

\* The buffer b is taken over by the step: it is re-keyed, filled or
\* invalidated.
TakenOver(b) ==
    \/ g_bufs'[b].valid # g_bufs[b].valid
    \/ Key(g_bufs'[b]) # Key(g_bufs[b])

CachedNext(k) == ht_lookup(g_ht', g_bufs', k[1], k[2]) # 0

\* C22: the buffer a miss takes over is unpinned and no unpinned buffer was
\* fetched less recently; and once NBufs + 1 distinct blocks have been
\* fetched and released in order on the empty cache, the block fetched first
\* is the one block that left the cache.
C22_EvictsLeastRecentlyFetched ==
    [][ /\ \A b \in Bufs :
             TakenOver(b) =>
                /\ g_bufs[b].refcnt = 0
                /\ \A u \in Bufs :
                      g_bufs[u].refcnt = 0 => Rank(u) <= Rank(b)
                /\ \A u \in Bufs \ {b} : ~TakenOver(u)
        /\ (run' # run /\ run' # RunOver /\ Len(run') = NBufs + 1) =>
              /\ ~CachedNext(run'[1])
              /\ \A i \in 2..(NBufs + 1) : CachedNext(run'[i])
      ]_vars

\* C22 witness: NBufs + 1 distinct blocks have been fetched and released in
\* order on the empty cache.
C22_Witness ==
    /\ run # RunOver
    /\ Len(run) = NBufs + 1
    /\ \A b \in Bufs : g_bufs[b].refcnt = 0


\* C23: a bcache_get of a block the cache holds returns the buffer holding
\* it, adds one to its refcount and to hits and moves it to the LRU head;
\* misses, evictions, the devices, the hash table and the key, validity,
\* dirty flag and bytes of every buffer stay as they were.
C23_HitFrame ==
    [][ \A dev \in Devs : \A block_no \in BlocksOf(dev) :
          LET b == ht_lookup(g_ht, g_bufs, dev, block_no) IN
          ( /\ b # 0
            /\ \E o \in GetOutcomes(dev, block_no) :
                  BcacheGetCounted(dev, block_no, o[1], o[2]) )
          => /\ fetched'[1] = b
             /\ g_bufs' = [g_bufs EXCEPT ![b].refcnt = @ + 1]
             /\ g_events' = [g_events EXCEPT !.hits = @ + 1]
             /\ g_lru'[1] = b
             /\ SelectSeq(g_lru', LAMBDA x : x # b)
                  = SelectSeq(g_lru, LAMBDA x : x # b)
             /\ disk' = disk
             /\ g_ht' = g_ht
             /\ g_stats' = g_stats
      ]_vars

\* C23 witness: a hit has been counted on a dirty buffer that was not at the
\* LRU head, while another block had been evicted before.
C23_Witness ==
    /\ g_events.hits > 0
    /\ g_events.evictions > 0
    /\ fetched # <<>>
    /\ g_bufs[fetched[1]].refcnt > 0
    /\ g_bufs[fetched[1]].dirty


\* The buffers bcache_sync_dev(dev) has to write back.
DirtyOf(dev) ==
    {b \in Bufs : g_bufs[b].valid /\ g_bufs[b].dev = dev /\ g_bufs[b].dirty}

\* C24: bcache_sync_dev(dev) calls the device's write once for every valid
\* dirty buffer of dev and for no other buffer, then, when dev has one, its
\* flush once and last; it returns true exactly when all of these calls
\* succeeded, and then no buffer of dev is dirty; the buffers and the
\* contents of the other devices stay as they were.
C24_SyncDevWritesThenFlushes ==
    [][ \A dev \in Devs : \A wres \in WriteOutcomes(dev) : \A fok \in BOOLEAN :
          BcacheSyncDev(dev, wres, fok) =>
            LET calls == bcache_sync_dev(g_bufs, disk, g_stats, dev, wres,
                                         fok).calls
                nw == Cardinality(DirtyOf(dev))
            IN
            /\ Len(calls) = nw + (IF HasFlush(dev) THEN 1 ELSE 0)
            /\ {calls[i] : i \in 1..nw} = {<<"write", b>> : b \in DirtyOf(dev)}
            /\ HasFlush(dev) => calls[nw + 1] = <<"flush", dev>>
            /\ (cop'.op = "sync_dev") <=>
                  /\ \A b \in DirtyOf(dev) : wres[b] = "ok"
                  /\ HasFlush(dev) => fok
            /\ cop'.op = "sync_dev" =>
                  \A b \in Bufs :
                     (g_bufs'[b].valid /\ g_bufs'[b].dev = dev)
                        => ~g_bufs'[b].dirty
            /\ \A b \in Bufs :
                  (~g_bufs[b].valid \/ g_bufs[b].dev # dev)
                     => g_bufs'[b] = g_bufs[b]
            /\ \A d \in Devs \ {dev} : disk'[d] = disk[d]
      ]_vars

\* C24 witness: bcache_sync_dev(dev) has returned true with a clean buffer
\* of dev in the cache while a buffer of another device is dirty.
C24_Witness ==
    /\ cop.op = "sync_dev"
    /\ \E b \in Bufs : g_bufs[b].valid /\ g_bufs[b].dev = cop.dev
    /\ \E b \in Bufs : /\ g_bufs[b].valid /\ g_bufs[b].dirty
                       /\ g_bufs[b].dev # cop.dev


\* C30: used_bufs is the number of valid buffers.
C30_UsedBufsCountsValid ==
    g_stats.used_bufs = Cardinality({b \in Bufs : g_bufs[b].valid})


\* C27: when scheduler_yield has returned to a thread, the current thread is
\* in state running.
C27_CurrentIsRunning ==
    sop.op = "yield" => threads[current_thread].state = "running"


\* C25: a "diskreadp 0 0 8" that reads its block with nothing counted yet
\* leaves hits = 0 and misses = 1, and every later one adds one to hits and
\* leaves misses as it is.
C25_DiskreadpThroughCache ==
    [][ ( /\ bop'.op = "diskreadp" /\ bop'.ret
          /\ bop'.index = 0 /\ bop'.lba = 0 /\ bop'.count = 8 )
        => IF g_events.hits = 0 /\ g_events.misses = 0
           THEN g_events'.hits = 0 /\ g_events'.misses = 1
           ELSE /\ g_events'.hits = g_events.hits + 1
                /\ g_events'.misses = g_events.misses
      ]_vars


\* port_issue_and_wait returns in this step.
IssueAndWaitReturns ==
    /\ a_pc \in {"latch", "complete"}
    /\ a_pc' = "idle"

\* C26: a command the controller has taken is reported as failed only when
\* its bit is still set in PxCI at the end of the wait or the error bit of
\* PxTFD is set, and a command the device has finished without error is
\* reported as a success, whenever the device finished it.
C26_CompletedIsSuccess ==
    [][ (IssueAndWaitReturns /\ a_call.done # "unlatched") =>
          /\ ~aop'.ret => \/ port.PxCI \cap SlotMask # {}
                          \/ port.PxTFD \cap TFD_ERR # {}
          /\ a_call.done = "ok" => aop'.ret
      ]_vars

\* C28: the call gives its bounce buffer back to the frame allocator only
\* when the bit of its command is clear in PxCI.
C28_BounceFreedWhenIdle ==
    [][ ( /\ a_pc \in {"latch", "complete"}
          /\ a_pc' = "idle"
          /\ a_call.bounce # NoBounce )
        => port.PxCI \cap SlotMask = {}
      ]_vars


\* C29: the port registers are programmed and the port started only with
\* CR and FR clear, and after a drain loop has run out the disk is not
\* marked ready.
C29_InitOnlyAfterDrain ==
    /\ iport.programmed => iport.seen = {}
    /\ iport.timed_out => ~iport.programmed /\ ~iport.ready


\* C31: in every reachable state of the cache dirty_bufs is the number of
\* valid buffers whose dirty flag is set: marking a clean valid buffer
\* counts once, marking a dirty or invalid one does not count, and every
\* successful write-back takes one off.
NumDirty(bufs) == Cardinality({b \in Bufs : bufs[b].valid /\ bufs[b].dirty})

C31_DirtyBufsCountsDirty ==
    g_stats.dirty_bufs = NumDirty(g_bufs)

\* One buffer is dirty and another one, written back by a sync, is clean.
C31_Witness ==
    /\ g_stats.dirty_bufs = 1
    /\ NumDirty(g_bufs) = 1
    /\ \E b \in Bufs : g_bufs[b].valid /\ ~g_bufs[b].dirty
    /\ cop.op = "sync_dev"


\* C32: a bcache_get whose device read fails returns NULL and leaves the
\* slot it chose invalid, with refcount 0 and on no chain of the hash table,
\* so that a lookup of the requested key and of the slot's previous key
\* finds nothing; the next bcache_get of the requested block takes the miss
\* path and fills a buffer from the device.
OnSomeChain(ht, b) ==
    \E idx \in DOMAIN ht : \E i \in 1..Len(ht[idx]) : ht[idx][i] = b

C32_FailedReadLeavesSlotInvalid ==
    [][ \A dev \in Devs : \A block_no \in BlocksOf(dev) :
          \A o \in GetOutcomes(dev, block_no) :
            LET r == bcache_get(g_bufs, g_ht, g_lru, g_stats, disk, dev,
                                block_no, o[1], o[2])
                v == r.victim
                again == bcache_get(g_bufs', g_ht', g_lru', g_stats', disk',
                                    dev, block_no, "ok", "ok")
            IN  (r.res = "rd_failed" /\ BcacheGet(dev, block_no, o[1], o[2]))
                =>  /\ r.ret = 0
                    /\ ~g_bufs'[v].valid
                    /\ g_bufs'[v].refcnt = 0
                    /\ ~OnSomeChain(g_ht', v)
                    /\ ht_lookup(g_ht', g_bufs', dev, block_no) = 0
                    /\ g_bufs[v].valid =>
                          ht_lookup(g_ht', g_bufs', g_bufs[v].dev,
                                    g_bufs[v].block_no) = 0
                    /\ again.res = "filled"
                    /\ again.bufs[again.ret].data = disk'[dev][block_no]
      ]_vars

\* A read into a buffer that held another block has failed: the miss has
\* evicted that block, and the buffer is invalid again, unpinned and on no
\* chain.
C32_Witness ==
    /\ g_events.evictions = 1
    /\ g_stats.used_bufs = NBufs
    /\ \E b \in Bufs :
          /\ ~g_bufs[b].valid
          /\ g_bufs[b].refcnt = 0
          /\ ~OnSomeChain(g_ht, b)


\* C33: a scheduler_yield made while reschedule_requested is clear and no
\* thread other than the current one is ready changes nothing: the current
\* thread, every thread's state and saved context and the flag stay as they
\* were, and no context switch is made.
NoOtherReady ==
    \A i \in Slots : i # current_thread => threads[i].state # "ready"

C33_YieldAloneIsNoOp ==
    [][ ( /\ SchedulerYield
          /\ reschedule_requested = 0
          /\ NoOtherReady )
        =>  /\ current_thread' = current_thread
            /\ \A i \in Slots :
                  /\ threads'[i].state = threads[i].state
                  /\ threads'[i].context = threads[i].context
            /\ reschedule_requested' = 0
            /\ order' = order
            /\ ~scheduler_yield(threads, current_thread, thread_count,
                                reschedule_requested).switched
      ]_vars

\* The running thread has yielded with the flag clear while the threads it
\* had created were all dead, and it is still the running thread.
C33_Witness ==
    /\ sop = [op |-> "yield", who |-> current_thread, req |-> 0]
    /\ thread_count > 1
    /\ NoOtherReady
    /\ threads[current_thread].state = "running"
    /\ \E i \in Slots : threads[i].state = "dead"


PrdtBufferInputs ==
    {[page |-> BufPage1, off |-> o] : o \in {0, 3584, 4095}}
PrdtBytesInputs == {1, 512, 513, 1024, 4096, 4097}

\* The pages a buffer touches, the part of the buffer in its k-th page and
\* the offset at which that part starts.
PagesTouched(buffer, bytes) == (buffer.off + bytes - 1) \div PAGE_SIZE + 1
PartOff(buffer, k) == IF k = 1 THEN buffer.off ELSE 0
PartLen(buffer, bytes, k) ==
    LET before == IF k = 1 THEN 0
                  ELSE (PAGE_SIZE - buffer.off) + (k - 2) * PAGE_SIZE
    IN  Min(PAGE_SIZE - PartOff(buffer, k), bytes - before)
PartPage(buffer, k) ==
    PtrAdd([page |-> buffer.page, off |-> 0], (k - 1) * PAGE_SIZE).page

RECURSIVE SumDbc(_, _)
SumDbc(prdt, n) ==
    IF n = 0 THEN 0 ELSE prdt[n].dbc + 1 + SumDbc(prdt, n - 1)

\* build_prdt_from_virt over page tables m: for each buffer and length, the
\* entries whenever every page touched resolves, none otherwise.
PrdtOnePerPage(m) ==
    \A buffer \in PrdtBufferInputs, bytes \in PrdtBytesInputs :
        LET prdt == build_prdt_from_virt(m, buffer, bytes)
            n == PagesTouched(buffer, bytes)
            phys(k) == vmm_get_physical(m, kernel_page_table,
                                        PartPage(buffer, k))
        IN  IF \A k \in 1..n : phys(k) # {}
            THEN /\ Len(prdt) = n
                 /\ \A k \in 1..n :
                      /\ prdt[k].dba \cup Shl(prdt[k].dbau, 32)
                            = Plus(phys(k), BitsOf(PartOff(buffer, k)))
                      /\ prdt[k].dbc = PartLen(buffer, bytes, k) - 1
                      /\ PartOff(buffer, k) + prdt[k].dbc + 1 <= PAGE_SIZE
                      /\ prdt[k].i = 1
                 /\ SumDbc(prdt, n) = bytes
            ELSE prdt = <<>>

\* C35: when every page of the buffer resolves to a non-zero physical
\* address, build_prdt_from_virt emits one entry per page touched, in
\* address order, each the part of the buffer in that page (so none
\* crosses a page boundary), with byte count length - 1 and I = 1, and the
\* lengths sum to bytes; when a page resolves to 0 it emits no entry, and
\* ahci_rw then takes the bounce buffer. Stated of the page tables at the
\* start and after every change to them, and of every ahci_rw that builds
\* its command table.
C35_PrdtOnePerPage ==
    /\ PrdtOnePerPage(mem)
    /\ [][ /\ mem' # mem => PrdtOnePerPage(mem')
           /\ ( /\ a_pc = "wait_not_busy"
                /\ a_pc' = "latch"
                /\ a_call.ata_cmd # ATA_CMD_FLUSH_CACHE_EXT )
              => LET direct == build_prdt_from_virt(mem, a_call.buffer,
                                  a_call.sector_count * SECTOR_SIZE)
                 IN  IF direct = <<>>
                     THEN a_call'.bounce # NoBounce
                     ELSE /\ a_call'.bounce = NoBounce
                          /\ ct' # NoCt => ct'.prdt = direct
         ]_vars

\* The command table holds the two entries of a buffer that starts in the
\* last sector of a mapped page and ends in the next mapped page.
C35_Witness ==
    /\ a_pc = "latch"
    /\ a_call.bounce = NoBounce
    /\ Len(ct.prdt) = 2
    /\ ct.prdt[1].dbc = 511
    /\ ct.prdt[2].dbc = 511


\* C36: a read or write that has returned true has commanded the device to
\* transfer the sectors asked for: the count the device reads from the FIS
\* and the bytes the PRDT describes are those of the request.
C36_TransfersWhatWasAsked ==
    (aop.op \in {"read", "write"} /\ aop.ret /\ aop.path = "bounce")
        => /\ FisCount(ct.cfis) = aop.sector_count
           /\ PrdtBytes(ct.prdt) = aop.sector_count * SECTOR_SIZE


\* The sectors the entry array of a GPT header takes.
SectorsNeeded(gh) == (gh.part_entry_size * gh.num_part_entries + 511) \div 512

\* C37: after block_init on a disk whose LBA 1 carries the GPT signature
\* with header_size outside [92, 512], part_entry_size outside [128, 1024],
\* num_part_entries outside [1, 4096] or an entry array of more than 512
\* sectors, no partition comes from the GPT and the partition-table type is
\* not GPT.
C37_BadGptHeaderRejected ==
    ( /\ bop.op # "none"
      /\ bdisk.gh.signature = GptSignature
      /\ \/ bdisk.gh.header_size \notin 92..512
         \/ bdisk.gh.part_entry_size \notin 128..1024
         \/ bdisk.gh.num_part_entries \notin 1..4096
         \/ SectorsNeeded(bdisk.gh) > 512 )
    =>  /\ g_part.g_part_table # "PART_TABLE_GPT"
        /\ \A i \in 0..(MAX_PARTITIONS - 1) : ~g_part.g_parts[i].is_gpt


\* C38: block_init reads LBA 1 before any other sector and reads LBA 0 only
\* when LBA 1 does not carry the GPT signature; on a disk with a valid GPT
\* header it registers the partitions it registers when LBA 0 is readable,
\* whether LBA 0 can be read or not.
C38_GptBeforeMbr ==
    [][ (bop.op = "none" /\ bop'.op = "init" /\ g_ready') =>
          LET r == block_init(TRUE, BootPool, bdisk')
              readable == block_init(TRUE, BootPool,
                                     [bdisk' EXCEPT !.bad = {}])
          IN  /\ r.reads # <<>> /\ r.reads[1] = 1
              /\ (\E k \in 1..Len(r.reads) : r.reads[k] = 0)
                    => bdisk'.gh.signature # GptSignature
              /\ ValidGptHeader(bdisk'.gh) => g_part' = readable.st
      ]_vars


\* C39: a page table returned by vmm_create_page_table has PML4 entries
\* 0..255 empty when it is returned, and every upper-half virtual address
\* resolves to the same physical address through it and through the kernel
\* table, also after later vmm_map_page calls on the kernel table.
C39_UpperHalfShared ==
    /\ (vop.op = "create" /\ vop.pt # NullPt) =>
          \A index \in SUBSET (0..7) : Load(mem, vop.pt.pml4_virt, index) = {}
    /\ \A pt \in page_tables : \A virt \in UpperHalf :
          vmm_get_physical(mem, pt, virt)
             = vmm_get_physical(mem, kernel_page_table, virt)


\* The place of a call in what kmain has done, 0 when it has not been made.
BootPos(call) ==
    IF \E k \in 1..Len(kboot.done) : kboot.done[k] = call
    THEN CHOOSE k \in 1..Len(kboot.done) : kboot.done[k] = call
    ELSE 0

\* Once call has been made, each call of the set before has been made,
\* earlier.
BootAfter(before, call) ==
    BootPos(call) > 0 =>
        \A b \in before : BootPos(b) > 0 /\ BootPos(b) < BootPos(call)

\* The calls that have been made were made in the order of the sequence.
BootInOrder(calls) ==
    \A i, j \in 1..Len(calls) :
        (i < j /\ BootPos(calls[i]) > 0 /\ BootPos(calls[j]) > 0)
            => BootPos(calls[i]) < BootPos(calls[j])

\* C40: kmain configures GDT and TSS before it installs the IDT, adopts the
\* scheduler's bootstrap thread after the heap is initialised and before the
\* PIC is remapped, enables interrupts only after IDT, PMM, VMM, heap,
\* scheduler bootstrap and PIC remap are done, and then scans PCI, probes
\* AHCI, probes the partitions and initialises the block cache in that order.
C40_BootOrder ==
    /\ BootAfter({"tss_init", "gdt_init"}, "init_idt")
    /\ BootAfter({"heap_init"}, "scheduler_init")
    /\ BootAfter({"scheduler_init"}, "init_pic")
    /\ kboot.ints =>
          \A call \in {"init_idt", "pmm_init", "vmm_init", "heap_init",
                       "scheduler_init", "init_pic"} : BootPos(call) > 0
    /\ BootAfter({"sti"}, "pci_enumerate_and_log")
    /\ BootInOrder(<<"pci_enumerate_and_log", "ahci_probe_mmio",
                     "probe_partitions", "bcache_init">>)

====
